---- MODULE Spec2Model ----
(***************************************************************************)
(* Model of the grid slicer and the ZIP archive builder of                 *)
(* src/pages/SlicerPage.tsx.                                               *)
(*                                                                         *)
(* Fractions (breakpoints, stops, fractions, the minimum gap) are JS       *)
(* numbers in the source.  They are modelled as exact rationals with the   *)
(* common denominator Scale: the integer v stands for the fraction         *)
(* v / Scale.  Pixel positions are integers.                               *)
(***************************************************************************)
EXTENDS Integers, Sequences, FiniteSets, TLC

VARIABLES
    sliceModeId,        \* useState(SLICE_MODES[0].id)
    customRows,         \* useState(3)
    customCols,         \* useState(3)
    customRowSplits,    \* useState(buildEvenSplits(3))
    customColSplits,    \* useState(buildEvenSplits(3))
    imageDimensions,    \* natural size of the master image, or NoImage
    slices,             \* rectangles of the last slicing run, in index order
    splitMoves,         \* number of updateRowSplit / updateColSplit calls made
    draggingLine,       \* useState<{ axis, index } | null>(null)
    crcTable,           \* let crcTable: Uint32Array | null = null
    crcData,            \* argument of the last crc32 call
    crcValue,           \* result of the last crc32 call
    zipFiles,           \* argument of the last buildZipBlob call
    zipNow,             \* new Date() read by the last buildZipBlob call
    zipBlob,            \* bytes of the Blob returned by the last buildZipBlob call
    exports,            \* the downloadSelected calls: position, files, clock, archive
    masterImage,        \* useState<string | null>(null): the image shown, or NoMaster
    dimensionLoads,     \* images whose img.onload (natural size) is still to fire
    sliceRuns,          \* the performSlice calls: position, captured grid, newSlices
    timelineItems,      \* useState<TimelineItem[]>([])
    processingArea,     \* useState<SliceItem[]>([])
    processingDragIndex,\* useState<number | null>(null)
    isEnhancing,        \* useState(false)
    enhanceRuns,        \* the performEnhance calls: position, queue, i, attempt
    clock               \* the last value Date.now() returned

gridVars == <<sliceModeId, customRows, customCols, customRowSplits, customColSplits, splitMoves,
              draggingLine>>
imageVars == <<imageDimensions, slices>>
zipVars == <<crcTable, crcData, crcValue, zipFiles, zipNow, zipBlob, exports>>
workVars == <<masterImage, dimensionLoads, sliceRuns, timelineItems, processingArea,
              processingDragIndex, isEnhancing, enhanceRuns, clock>>
vars == <<sliceModeId, customRows, customCols, customRowSplits, customColSplits, splitMoves,
          draggingLine,
          imageDimensions, slices,
          crcTable, crcData, crcValue, zipFiles, zipNow, zipBlob, exports,
          masterImage, dimensionLoads, sliceRuns, timelineItems, processingArea,
          processingDragIndex, isEnhancing, enhanceRuns, clock>>

----------------------------------------------------------------------------
(* Numbers *)

\* Denominator of the fractions: a multiple of every count 1..8 (even
\* splits i/n), of 100 (0.05, 0.01) and of 10*n (0.6/n).
Scale == 840 * 5

\* F(x), with x evaluated before F is applied (an operator argument is
\* otherwise evaluated where it is first used, which nests the evaluation of
\* a long loop as deep as the loop is long)
Strict(x, F(_)) == CHOOSE r \in { F(v) : v \in {x} } : TRUE

Min(a, b) == IF a < b THEN a ELSE b
Max(a, b) == IF a > b THEN a ELSE b

\* Math.round(numer / denom) for denom > 0: floor(numer/denom + 1/2)
MathRound(numer, denom) == (2 * numer + denom) \div (2 * denom)

----------------------------------------------------------------------------
(* Grid configuration *)

NoImage == [width |-> 0, height |-> 0]
NoDate == [year |-> 0, month |-> 0, day |-> 0, hours |-> 0, minutes |-> 0, seconds |-> 0]

MAX_CUSTOM_GRID == 8
CUSTOM_MODE_ID == "custom"

SLICE_MODES ==
    << [id |-> "3x3",    rows |-> 3, cols |-> 3],
       [id |-> "2x2",    rows |-> 2, cols |-> 2],
       [id |-> "4x4",    rows |-> 4, cols |-> 4],
       [id |-> "2x3",    rows |-> 2, cols |-> 3],
       [id |-> "3x2",    rows |-> 3, cols |-> 2],
       [id |-> "custom", rows |-> 3, cols |-> 3] >>

ModeIds == { SLICE_MODES[k].id : k \in 1..Len(SLICE_MODES) }

clampValue(value, min, max) == Min(Max(value, min), max)

\* [ (i + 1) / count : i = 0 .. count - 2 ]
buildEvenSplits(count) ==
    IF count <= 1 THEN << >>
    ELSE [i \in 1..(count - 1) |-> (i * Scale) \div count]

\* A split array holds numbers; after a write past its end it can also hold
\* NaN and empty slots, which read as undefined.
NotANumber == 0 - 9 * Scale
Undefined == 0 - 8 * Scale
isNumber(v) == v # NotANumber /\ v # Undefined

\* next[i] for a 0-based i: undefined past the end
elementAt(arr, i) == IF i >= 0 /\ i < Len(arr) THEN arr[i + 1] ELSE Undefined

\* a + b where b is a number: NaN when a is NaN or undefined
jsPlus(a, b) == IF isNumber(a) THEN a + b ELSE NotANumber

\* clampValue with arguments that may be NaN: Math.max and Math.min give NaN
\* as soon as one argument is NaN
jsClamp(value, min, max) ==
    IF isNumber(value) /\ isNumber(min) /\ isNumber(max) THEN clampValue(value, min, max)
    ELSE NotANumber

\* next[i] = v for a 0-based i: past the end the array grows and the slots
\* in between stay empty
assignAt(arr, i, v) ==
    IF i < Len(arr) THEN [arr EXCEPT ![i + 1] = v]
    ELSE arr \o [k \in 1..(i - Len(arr)) |-> Undefined] \o <<v>>

\* (mutant of buildStops: the closing stop 1 of a single slice is left out)
buildStopsNoEnd(count, splits) ==
    IF count <= 1 THEN <<0>>
    ELSE LET kept == SubSeq(splits, 1, Min(count - 1, Len(splits)))
             trimmed == [i \in 1..Len(kept) |->
                            IF kept[i] = Undefined THEN Undefined
                            ELSE jsClamp(kept[i], 0, Scale)]
         IN <<0>> \o trimmed \o <<Scale>>

\* [0, ...splits.slice(0, count - 1).map(clamp to [0,1]), 1]; map leaves an
\* empty slot empty, and the spread reads it as undefined
buildStops(count, splits) ==
    IF count <= 1 THEN <<0, Scale>>
    ELSE LET kept == SubSeq(splits, 1, Min(count - 1, Len(splits)))
             trimmed == [i \in 1..Len(kept) |->
                            IF kept[i] = Undefined THEN Undefined
                            ELSE jsClamp(kept[i], 0, Scale)]
         IN <<0>> \o trimmed \o <<Scale>>

\* stops.slice(1).map((stop, index) => Math.max(0, stop - stops[index]))
buildFractions(stops) ==
    [i \in 1..(Len(stops) - 1) |->
        IF isNumber(stops[i + 1]) /\ isNumber(stops[i]) THEN Max(0, stops[i + 1] - stops[i])
        ELSE NotANumber]

\* (mutant of getMinGap: 0.005 instead of 0.05)
getMinGapSmall(count) == Min((5 * Scale) \div 1000, ((6 * Scale) \div 10) \div Max(count, 1))

\* Math.min(0.05, 0.6 / Math.max(count, 1))
getMinGap(count) == Min((5 * Scale) \div 100, ((6 * Scale) \div 10) \div Max(count, 1))

isCustomMode(mode) == mode = CUSTOM_MODE_ID

activeMode(mode) ==
    IF \E k \in 1..Len(SLICE_MODES) : SLICE_MODES[k].id = mode
    THEN SLICE_MODES[CHOOSE k \in 1..Len(SLICE_MODES) : SLICE_MODES[k].id = mode]
    ELSE SLICE_MODES[1]

gridRowCount == IF isCustomMode(sliceModeId) THEN customRows ELSE activeMode(sliceModeId).rows
gridColCount == IF isCustomMode(sliceModeId) THEN customCols ELSE activeMode(sliceModeId).cols

rowSplits == IF isCustomMode(sliceModeId) THEN customRowSplits ELSE buildEvenSplits(gridRowCount)
colSplits == IF isCustomMode(sliceModeId) THEN customColSplits ELSE buildEvenSplits(gridColCount)
rowStops == buildStops(gridRowCount, rowSplits)
colStops == buildStops(gridColCount, colSplits)
rowFractions == buildFractions(rowStops)
colFractions == buildFractions(colStops)

\* The value handed to updateCustomRows / updateCustomCols:
\* Number.parseInt(e.target.value, 10) is an integer or NaN.
NaN == [finite |-> FALSE, num |-> 0]
Num(n) == [finite |-> TRUE, num |-> n]

\* (mutant of clampGridSize: no upper limit)
clampGridSizeNoMax(value) ==
    LET safeValue == IF value.finite THEN value.num ELSE 1
    IN Max(safeValue, 1)

\* const safeValue = Number.isFinite(value) ? value : 1;
\* const next = clampValue(safeValue, 1, MAX_CUSTOM_GRID);
clampGridSize(value) ==
    LET safeValue == IF value.finite THEN value.num ELSE 1
    IN clampValue(safeValue, 1, MAX_CUSTOM_GRID)

\* (mutant of setSplit: the raw value is stored without clamping)
setSplitUnclamped(prev, count, index, value) ==
    IF Len(prev) = 0 THEN prev ELSE [prev EXCEPT ![index + 1] = value]

\* The updater passed to setCustomRowSplits / setCustomColSplits
\* (index is 0-based in the source, sequences are 1-based here).  With an
\* index past the end of the array the neighbours read are undefined, the
\* clamped value is NaN and the assignment lengthens the array.
setSplit(prev, count, index, value) ==
    IF Len(prev) = 0 THEN prev
    ELSE LET minGap == getMinGap(count)
             lowerBound == IF index = 0 THEN 0 ELSE elementAt(prev, index - 1)
             upperBound == IF index = Len(prev) - 1 THEN Scale ELSE elementAt(prev, index + 1)
         IN assignAt(prev, index,
                     jsClamp(value, jsPlus(lowerBound, minGap), jsPlus(upperBound, 0 - minGap)))

\* draggingLine when no divider is being dragged
NoLine == [axis |-> "none", index |-> 0]

\* the useState initial values of the grid
GridDefault ==
    /\ sliceModeId = SLICE_MODES[1].id
    /\ customRows = 3
    /\ customCols = 3
    /\ customRowSplits = buildEvenSplits(3)
    /\ customColSplits = buildEvenSplits(3)
    /\ splitMoves = 0
    /\ draggingLine = NoLine

ImageDefault ==
    /\ imageDimensions = NoImage
    /\ slices = << >>

\* masterImage === null
NoMaster == 0
\* processingDragIndex === null
NoDragIndex == 0 - 1

\* at most this many performSlice calls in one behaviour
MaxSliceRuns == 2
SliceRunIds == 1..MaxSliceRuns
\* a performSlice call that has not been made
NoSliceRun == [pc |-> "idle", image |-> NoMaster, rows |-> 0, cols |-> 0, label |-> 0,
               newSlices |-> << >>]

\* at most this many performEnhance calls in one behaviour
MaxEnhanceRuns == 2
EnhanceRunIds == 1..MaxEnhanceRuns
\* a performEnhance call that has not been made
NoEnhanceRun == [pc |-> "idle", queue |-> << >>, i |-> 0, attempt |-> 0, submitted |-> << >>,
                 returned |-> ""]

WorkDefault ==
    /\ masterImage = NoMaster
    /\ dimensionLoads = {}
    /\ sliceRuns = [r \in SliceRunIds |-> NoSliceRun]
    /\ timelineItems = << >>
    /\ processingArea = << >>
    /\ processingDragIndex = NoDragIndex
    /\ isEnhancing = FALSE
    /\ enhanceRuns = [e \in EnhanceRunIds |-> NoEnhanceRun]
    /\ clock = 0

----------------------------------------------------------------------------
(* 32-bit words *)
(* A JS number produced or consumed by the bit operators is the pair       *)
(* <<hi, lo>> standing for hi * 65536 + lo with lo in 0..65535.  hi is in  *)
(* 0..65535 for an unsigned value (the result of >>>) and in               *)
(* -32768..32767 for a signed one (the result of ^ and &).                 *)

Word(n) == <<n \div 65536, n % 65536>>

ToUint32(w) == <<w[1] % 65536, w[2]>>
ToInt32(w) == LET h == w[1] % 65536
              IN <<IF h >= 32768 THEN h - 65536 ELSE h, w[2]>>

\* bitwise exclusive or of two values in 0..15 and in 0..65535
XorNibble ==
    [x \in 0..15, y \in 0..15 |->
        ((x + y) % 2)
        + 2 * (((x \div 2) + (y \div 2)) % 2)
        + 4 * (((x \div 4) + (y \div 4)) % 2)
        + 8 * (((x \div 8) + (y \div 8)) % 2)]

Xor16(a, b) ==
    XorNibble[a % 16, b % 16]
    + 16 * XorNibble[(a \div 16) % 16, (b \div 16) % 16]
    + 256 * XorNibble[(a \div 256) % 16, (b \div 256) % 16]
    + 4096 * XorNibble[(a \div 4096) % 16, (b \div 4096) % 16]

\* a ^ b
JsXor(a, b) == ToInt32(<<Xor16(ToUint32(a)[1], ToUint32(b)[1]), Xor16(a[2], b[2])>>)

\* a >>> k, for k in 0..16
JsUshr(a, k) ==
    LET u == ToUint32(a)
        p == 2 ^ k
    IN <<u[1] \div p, (u[2] \div p) + (u[1] % p) * (65536 \div p)>>

\* a & 0xff and a & 1, as small integers
JsAndFF(a) == a[2] % 256
JsAnd1(a) == a[2] % 2

----------------------------------------------------------------------------
(* CRC-32 *)

Null == << >>
NoCrc == <<0 - 1, 0 - 1>>

CRC_POLY == <<60856, 33568>>        \* 0xedb88320
ALL_ONES == <<65535, 65535>>        \* 0xffffffff

\* the inner loop of getCrcTable: k iterations done, 8 in all; the entry
\* stored is c >>> 0
RECURSIVE crcTableEntry(_, _)
crcTableEntry(c, k) ==
    IF k >= 8 THEN JsUshr(c, 0)
    ELSE crcTableEntry(IF JsAnd1(c) = 1 THEN JsXor(CRC_POLY, JsUshr(c, 1)) ELSE JsUshr(c, 1),
                       k + 1)

builtCrcTable == [i \in 0..255 |-> crcTableEntry(Word(i), 0)]

\* (mutant of getCrcTable: a memoised table comes back rotated by one entry)
getCrcTableRotated(memo) ==
    IF memo # Null THEN [i \in 0..255 |-> memo[(i + 1) % 256]] ELSE builtCrcTable

\* getCrcTable(): the memoised table, built on the first call
getCrcTable(memo) == IF memo # Null THEN memo ELSE builtCrcTable

RECURSIVE crcLoop(_, _, _, _)
crcLoop(crc, table, data, i) ==
    IF i > Len(data) THEN crc
    ELSE Strict(JsXor(JsUshr(crc, 8), table[JsAndFF(JsXor(crc, Word(data[i])))]),
                LAMBDA next : crcLoop(next, table, data, i + 1))

\* (mutant of crc32: the final xor with 0xffffffff is missing)
crc32NoFinalXor(data, memo) == JsUshr(crcLoop(ALL_ONES, getCrcTable(memo), data, 1), 0)

\* crc32(data), with the module variable crcTable passed as memo
crc32(data, memo) ==
    JsUshr(JsXor(crcLoop(ALL_ONES, getCrcTable(memo), data, 1), ALL_ONES), 0)

\* at most this many downloadSelected calls in one behaviour
MaxExports == 2
ExportIds == 1..MaxExports

\* a downloadSelected call that has not been made
NoExport == [pc |-> "idle", files |-> << >>, now |-> NoDate, blob |-> Null]

ZipDefault ==
    /\ crcTable = Null
    /\ crcData = << >>
    /\ crcValue = NoCrc
    /\ zipFiles = << >>
    /\ zipNow = NoDate
    /\ zipBlob = Null
    /\ exports = [p \in ExportIds |-> NoExport]

\* Bounds of the CRC model
MaxCrcLen == 2
CrcBytes == {0, 1, 49, 128, 255}
CheckVector == <<49, 50, 51, 52, 53, 54, 55, 56, 57>>      \* "123456789"

RECURSIVE SeqsUpTo(_, _)
SeqsUpTo(S, n) ==
    IF n = 0 THEN {<< >>}
    ELSE LET shorter == SeqsUpTo(S, n - 1)
         IN shorter \cup { Append(q, x) : q \in shorter, x \in S }

CrcInputs == SeqsUpTo(CrcBytes, MaxCrcLen) \cup { <<b>> : b \in 0..255 } \cup {CheckVector}

\* one call crc32(data)
callCrc32(data) ==
    /\ crcData' = data
    /\ crcValue' = crc32(data, crcTable)
    /\ crcTable' = getCrcTable(crcTable)
    /\ UNCHANGED <<workVars, gridVars, imageVars, zipFiles, zipNow, zipBlob, exports>>

CrcInit == GridDefault /\ ImageDefault /\ ZipDefault /\ WorkDefault

CrcNext == \E data \in CrcInputs : callCrc32(data)

SpecCrc == CrcInit /\ [][CrcNext]_vars

----------------------------------------------------------------------------
(* ZIP archive builder *)

\* a | b for a, b in 0..65535
OrNibble ==
    [x \in 0..15, y \in 0..15 |->
        (IF (x % 2) + (y % 2) > 0 THEN 1 ELSE 0)
        + 2 * (IF ((x \div 2) % 2) + ((y \div 2) % 2) > 0 THEN 1 ELSE 0)
        + 4 * (IF ((x \div 4) % 2) + ((y \div 4) % 2) > 0 THEN 1 ELSE 0)
        + 8 * (IF ((x \div 8) % 2) + ((y \div 8) % 2) > 0 THEN 1 ELSE 0)]

Or16(a, b) ==
    OrNibble[a % 16, b % 16]
    + 16 * OrNibble[(a \div 16) % 16, (b \div 16) % 16]
    + 256 * OrNibble[(a \div 256) % 16, (b \div 256) % 16]
    + 4096 * OrNibble[(a \div 4096) % 16, (b \div 4096) % 16]

\* a | b for non-negative a, b below 2^31
JsOr(a, b) == Or16(a % 65536, b % 65536) + 65536 * Or16(a \div 65536, b \div 65536)

\* a << k for non-negative a with a * 2^k below 2^31
JsShl(a, k) == a * (2 ^ k)

\* date holds what the getters of a Date return (getMonth() is 0-based)
toDosDate(date) ==
    LET year == Max(1980, date.year)
        month == date.month + 1
        day == date.day
        hours == date.hours
        minutes == date.minutes
        seconds == date.seconds \div 2
    IN [dosTime |-> JsOr(JsOr(JsShl(hours, 11), JsShl(minutes, 5)), seconds),
        dosDate |-> JsOr(JsOr(JsShl(year - 1980, 9), JsShl(month, 5)), day)]

\* TextEncoder.encode: the UTF-8 bytes of a name given as a sequence of code
\* points of the basic multilingual plane
utf8Bytes(cp) ==
    IF cp < 128 THEN <<cp>>
    ELSE IF cp < 2048 THEN <<192 + (cp \div 64), 128 + (cp % 64)>>
    ELSE <<224 + (cp \div 4096), 128 + ((cp \div 64) % 64), 128 + (cp % 64)>>

RECURSIVE encodeName(_)
encodeName(name) ==
    IF name = << >> THEN << >>
    ELSE utf8Bytes(Head(name)) \o encodeName(Tail(name))

\* DataView.setUint16(.., v, true) and setUint32(.., v, true): the low 16 / 32
\* bits of v, least significant byte first
U16LE(v) == <<v % 256, (v \div 256) % 256>>
U32LE(v) == <<v % 256, (v \div 256) % 256, (v \div 65536) % 256, (v \div 16777216) % 256>>
U32LEWord(w) == U16LE(w[2]) \o U16LE(ToUint32(w)[1])

LOCAL_SIGNATURE == 67324752       \* 0x04034b50
CENTRAL_SIGNATURE == 33639248     \* 0x02014b50
END_SIGNATURE == 101010256        \* 0x06054b50
LOCAL_HEADER_LEN == 30
CENTRAL_HEADER_LEN == 46
END_RECORD_LEN == 22

\* (mutant of localHeader: compression method 8, deflate)
localHeaderDeflate(now, crc, size, nameLen) ==
    U32LE(LOCAL_SIGNATURE) \o U16LE(20) \o U16LE(0) \o U16LE(8)
    \o U16LE(now.dosTime) \o U16LE(now.dosDate)
    \o U32LEWord(crc) \o U32LE(size) \o U32LE(size)
    \o U16LE(nameLen) \o U16LE(0)

localHeader(now, crc, size, nameLen) ==
    U32LE(LOCAL_SIGNATURE) \o U16LE(20) \o U16LE(0) \o U16LE(0)
    \o U16LE(now.dosTime) \o U16LE(now.dosDate)
    \o U32LEWord(crc) \o U32LE(size) \o U32LE(size)
    \o U16LE(nameLen) \o U16LE(0)

\* (mutant of centralHeader: the local-header offset is never written)
centralHeaderNoOffset(now, crc, size, nameLen, offset) ==
    U32LE(CENTRAL_SIGNATURE) \o U16LE(20) \o U16LE(20) \o U16LE(0) \o U16LE(0)
    \o U16LE(now.dosTime) \o U16LE(now.dosDate)
    \o U32LEWord(crc) \o U32LE(size) \o U32LE(size)
    \o U16LE(nameLen) \o U16LE(0) \o U16LE(0) \o U16LE(0) \o U16LE(0)
    \o U32LE(0) \o U32LE(0)

\* (mutant of centralHeader: DOS date and DOS time exchanged)
centralHeaderDateFirst(now, crc, size, nameLen, offset) ==
    U32LE(CENTRAL_SIGNATURE) \o U16LE(20) \o U16LE(20) \o U16LE(0) \o U16LE(0)
    \o U16LE(now.dosDate) \o U16LE(now.dosTime)
    \o U32LEWord(crc) \o U32LE(size) \o U32LE(size)
    \o U16LE(nameLen) \o U16LE(0) \o U16LE(0) \o U16LE(0) \o U16LE(0)
    \o U32LE(0) \o U32LE(offset)

centralHeader(now, crc, size, nameLen, offset) ==
    U32LE(CENTRAL_SIGNATURE) \o U16LE(20) \o U16LE(20) \o U16LE(0) \o U16LE(0)
    \o U16LE(now.dosTime) \o U16LE(now.dosDate)
    \o U32LEWord(crc) \o U32LE(size) \o U32LE(size)
    \o U16LE(nameLen) \o U16LE(0) \o U16LE(0) \o U16LE(0) \o U16LE(0)
    \o U32LE(0) \o U32LE(offset)

\* (mutant of advanceOffset: only the payload is counted)
advanceOffsetPayloadOnly(offset, nameLen, size) == offset + size

\* offset += localHeader.length + nameBytes.length + size
advanceOffset(offset, nameLen, size) == offset + LOCAL_HEADER_LEN + nameLen + size

\* (mutant of endRecord: directory size and directory offset exchanged)
endRecordSwapped(count, centralSize, offset) ==
    U32LE(END_SIGNATURE) \o U16LE(0) \o U16LE(0)
    \o U16LE(count) \o U16LE(count)
    \o U32LE(offset) \o U32LE(centralSize) \o U16LE(0)

endRecord(count, centralSize, offset) ==
    U32LE(END_SIGNATURE) \o U16LE(0) \o U16LE(0)
    \o U16LE(count) \o U16LE(count)
    \o U32LE(centralSize) \o U32LE(offset) \o U16LE(0)

RECURSIVE concatParts(_)
concatParts(parts) ==
    IF parts = << >> THEN << >> ELSE Head(parts) \o concatParts(Tail(parts))

RECURSIVE partsLength(_)
partsLength(parts) ==
    IF parts = << >> THEN 0 ELSE Len(Head(parts)) + partsLength(Tail(parts))

\* files.forEach(...): the entries from index i on, with the accumulators
\* parts, centralParts and offset
RECURSIVE zipEntries(_, _, _, _, _, _, _)
zipEntries(files, i, now, memo, parts, centralParts, offset) ==
    IF i > Len(files)
    THEN [parts |-> parts, centralParts |-> centralParts, offset |-> offset]
    ELSE LET file == files[i]
             nameBytes == encodeName(file.name)
             size == Len(file.data)
             crc == crc32(file.data, memo)
         IN zipEntries(files, i + 1, now, getCrcTable(memo),
                parts \o <<localHeader(now, crc, size, Len(nameBytes)), nameBytes, file.data>>,
                centralParts \o <<centralHeader(now, crc, size, Len(nameBytes), offset), nameBytes>>,
                advanceOffset(offset, Len(nameBytes), size))

\* (mutant of blobBytes: the central directory is put before the entries)
blobBytesCentralFirst(parts, centralParts, end) ==
    concatParts(centralParts) \o concatParts(parts) \o end

\* new Blob([...parts, ...centralParts, endRecord])
blobBytes(parts, centralParts, end) ==
    concatParts(parts) \o concatParts(centralParts) \o end

buildZipBlob(files, date, memo) ==
    LET now == toDosDate(date)
        loop == zipEntries(files, 1, now, memo, << >>, << >>, 0)
        centralSize == partsLength(loop.centralParts)
    IN blobBytes(loop.parts, loop.centralParts,
                 endRecord(Len(files), centralSize, loop.offset))

\* Bounds of the archive model
MaxFiles == 3
TenBytes == <<137, 80, 78, 71, 13, 10, 26, 10, 0, 255>>
TwentyFiveBytes == [i \in 1..25 |-> (i * 37) % 256]
\* names and contents paired so that every name and every content occurs,
\* empty ones together and apart
ZipPairs == { <<1, 2>>, <<2, 1>>, <<2, 3>>, <<3, 2>>, <<3, 1>> }
\* "a", "1.e-acute", ""
ZipNameAt == << <<97>>, <<49, 46, 233>>, << >> >>
ZipDataAt == << << >>, TenBytes, TwentyFiveBytes >>
ZipDates == { [year |-> 2024, month |-> 11, day |-> 31, hours |-> 23, minutes |-> 59, seconds |-> 59],
              [year |-> 1970, month |-> 0, day |-> 1, hours |-> 0, minutes |-> 0, seconds |-> 0],
              [year |-> 2108, month |-> 0, day |-> 1, hours |-> 12, minutes |-> 30, seconds |-> 1] }
ZipEntrySet == { [name |-> ZipNameAt[p[1]], data |-> ZipDataAt[p[2]]] : p \in ZipPairs }
ZipInputs == SeqsUpTo(ZipEntrySet, MaxFiles)

\* one call buildZipBlob(files) on the entries in zipFiles, reading the clock
\* once
callBuildZipBlob(date) ==
    /\ zipBlob = Null
    /\ zipNow' = date
    /\ zipBlob' = buildZipBlob(zipFiles, date, crcTable)
    /\ crcTable' = IF zipFiles = << >> THEN crcTable ELSE getCrcTable(crcTable)
    /\ crcData' = IF zipFiles = << >> THEN crcData ELSE zipFiles[Len(zipFiles)].data
    /\ crcValue' = IF zipFiles = << >> THEN crcValue
                   ELSE crc32(zipFiles[Len(zipFiles)].data, crcTable)
    /\ UNCHANGED <<workVars, gridVars, imageVars, zipFiles, exports>>

\* the entry list handed to buildZipBlob, before or after the CRC table was
\* built by an earlier call
ZipInit ==
    /\ GridDefault
    /\ ImageDefault
    /\ crcTable \in {Null, builtCrcTable}
    /\ crcData = << >>
    /\ crcValue = NoCrc
    /\ zipFiles \in ZipInputs
    /\ zipNow = NoDate
    /\ zipBlob = Null
    /\ exports = [p \in ExportIds |-> NoExport]
    /\ WorkDefault

ZipNext == \E date \in ZipDates : callBuildZipBlob(date)

SpecZip == ZipInit /\ [][ZipNext]_vars

----------------------------------------------------------------------------
(* Export: downloadSelected *)

\* the decimal digits of n >= 0 as character codes
RECURSIVE decimalDigits(_)
decimalDigits(n) ==
    IF n < 10 THEN <<48 + n>> ELSE Append(decimalDigits(n \div 10), 48 + (n % 10))

\* (mutant of pngName: the names count from 0)
pngNameFromZero(idx) == decimalDigits(idx) \o <<46, 112, 110, 103>>

\* `${idx + 1}.png`
pngName(idx) == decimalDigits(idx + 1) \o <<46, 112, 110, 103>>

\* the entries made from the fetched contents of toDownload
exportFiles(contents) ==
    [k \in 1..Len(contents) |-> [name |-> pngName(k - 1), data |-> contents[k]]]

\* Contents of the items of the processing area that pass the filter, at the
\* time of a click on the download button
ExportLists ==
    { << >>, <<TenBytes>>, <<TwentyFiveBytes, TenBytes>>, <<TenBytes, << >>, TwentyFiveBytes>> }

\* (mutant of startExport: the return on an empty toDownload is missing)
startExportUnguarded(p, contents) ==
    /\ exports[p].pc = "idle"
    /\ exports' = [exports EXCEPT ![p] = [pc |-> "fetching", files |-> exportFiles(contents),
                                          now |-> NoDate, blob |-> Null]]
    /\ UNCHANGED <<workVars, gridVars, imageVars, crcTable, crcData, crcValue, zipFiles, zipNow, zipBlob>>

\* downloadSelected up to its await: the items are filtered, the call
\* returns when none is left (pc "returned", nothing else happens), otherwise
\* the fetches start
startExport(p, contents) ==
    /\ exports[p].pc = "idle"
    /\ exports' = IF Len(contents) = 0 THEN [exports EXCEPT ![p].pc = "returned"]
                  ELSE [exports EXCEPT ![p] = [pc |-> "fetching", files |-> exportFiles(contents),
                                               now |-> NoDate, blob |-> Null]]
    /\ UNCHANGED <<workVars, gridVars, imageVars, crcTable, crcData, crcValue, zipFiles, zipNow, zipBlob>>

\* downloadSelected after its await: all fetches are done, buildZipBlob runs
\* to completion and the archive is handed to the browser
finishExport(p, date) ==
    /\ exports[p].pc = "fetching"
    /\ LET files == exports[p].files
           blob == buildZipBlob(files, date, crcTable)
       IN /\ exports' = [exports EXCEPT ![p] = [pc |-> "done", files |-> files,
                                                now |-> date, blob |-> blob]]
          /\ zipFiles' = files
          /\ zipNow' = date
          /\ zipBlob' = blob
          /\ crcTable' = getCrcTable(crcTable)
          /\ crcData' = files[Len(files)].data
          /\ crcValue' = crc32(files[Len(files)].data, getCrcTable(crcTable))
    /\ UNCHANGED <<workVars, gridVars, imageVars>>

ExportInit == GridDefault /\ ImageDefault /\ ZipDefault /\ WorkDefault

ExportNext ==
    \/ \E p \in ExportIds, contents \in ExportLists : startExport(p, contents)
    \/ \E p \in ExportIds, date \in ZipDates : finishExport(p, date)

SpecExport == ExportInit /\ [][ExportNext]_vars

----------------------------------------------------------------------------
(* Bounds of the grid model *)

\* at most this many updateRowSplit / updateColSplit calls in one behaviour
MaxSplitMoves == 3

\* values typed into the row / column count inputs
GridInputs == {NaN, Num(-1), Num(0), Num(2), Num(4), Num(8), Num(9)}

\* raw values handed to updateRowSplit / updateColSplit: below 0, inside
\* (0,1) and above 1
RawValues == {0 - Scale, 0, Scale \div 100, (45 * Scale) \div 100, (99 * Scale) \div 100, 2 * Scale}


----------------------------------------------------------------------------
(* Grid operations *)

GridInit == GridDefault /\ ImageDefault /\ ZipDefault /\ WorkDefault

\* onClick={() => setSliceModeId(mode.id)}
selectSliceMode(mode) ==
    /\ sliceModeId' = mode
    /\ UNCHANGED <<workVars, customRows, customCols, customRowSplits, customColSplits, splitMoves,
                   draggingLine, imageVars, zipVars>>

updateCustomRows(value) ==
    /\ isCustomMode(sliceModeId)
    /\ customRows' = clampGridSize(value)
    /\ customRowSplits' = buildEvenSplits(clampGridSize(value))
    /\ UNCHANGED <<workVars, sliceModeId, customCols, customColSplits, splitMoves, draggingLine,
                   imageVars, zipVars>>

updateCustomCols(value) ==
    /\ isCustomMode(sliceModeId)
    /\ customCols' = clampGridSize(value)
    /\ customColSplits' = buildEvenSplits(clampGridSize(value))
    /\ UNCHANGED <<workVars, sliceModeId, customRows, customRowSplits, splitMoves, draggingLine,
                   imageVars, zipVars>>

resetCustomSplits ==
    /\ isCustomMode(sliceModeId)
    /\ customRowSplits' = buildEvenSplits(customRows)
    /\ customColSplits' = buildEvenSplits(customCols)
    /\ UNCHANGED <<workVars, sliceModeId, customRows, customCols, splitMoves, draggingLine,
                   imageVars, zipVars>>

\* (mutant of updateRowSplit: the column breakpoints are reset as well)
updateRowSplitResetCols(index, value) ==
    /\ splitMoves < MaxSplitMoves
    /\ splitMoves' = splitMoves + 1
    /\ customRowSplits' = setSplit(customRowSplits, customRows, index, value)
    /\ customColSplits' = buildEvenSplits(customCols)
    /\ UNCHANGED <<workVars, sliceModeId, customRows, customCols, draggingLine, imageVars, zipVars>>

updateRowSplit(index, value) ==
    /\ splitMoves < MaxSplitMoves
    /\ splitMoves' = splitMoves + 1
    /\ customRowSplits' = setSplit(customRowSplits, customRows, index, value)
    /\ UNCHANGED <<workVars, sliceModeId, customRows, customCols, customColSplits, draggingLine,
                   imageVars, zipVars>>

updateColSplit(index, value) ==
    /\ splitMoves < MaxSplitMoves
    /\ splitMoves' = splitMoves + 1
    /\ customColSplits' = setSplit(customColSplits, customCols, index, value)
    /\ UNCHANGED <<workVars, sliceModeId, customRows, customCols, customRowSplits, draggingLine,
                   imageVars, zipVars>>

GridNext ==
    \/ \E mode \in ModeIds : selectSliceMode(mode)
    \/ \E value \in GridInputs : updateCustomRows(value)
    \/ \E value \in GridInputs : updateCustomCols(value)
    \/ resetCustomSplits
    \/ \E index \in 0..(Len(customRowSplits) - 1), value \in RawValues : updateRowSplit(index, value)
    \/ \E index \in 0..(Len(customColSplits) - 1), value \in RawValues : updateColSplit(index, value)

SpecGrid == GridInit /\ [][GridNext]_vars

----------------------------------------------------------------------------
(* Dragging a divider *)

\* indices of the handles drawn on an axis: stops.slice(1, -1)
handleIndices(stops) == 0..(Len(stops) - 3)

\* onPointerDown of a handle; handles exist in custom mode, on the overlay
\* of a loaded image
pointerDown(axis, idx) ==
    /\ isCustomMode(sliceModeId)
    /\ imageDimensions # NoImage
    /\ idx \in handleIndices(IF axis = "col" THEN colStops ELSE rowStops)
    /\ draggingLine' = [axis |-> axis, index |-> idx]
    /\ UNCHANGED <<workVars, sliceModeId, customRows, customCols, customRowSplits, customColSplits,
                   splitMoves, imageVars, zipVars>>

\* a pointermove event on the window, at the given ratio of the overlay's
\* width (height): handleMove is listening only while a line is dragged
pointerMove(ratio) ==
    IF draggingLine = NoLine THEN UNCHANGED vars
    ELSE IF draggingLine.axis = "col"
         THEN updateColSplit(draggingLine.index, clampValue(ratio, Scale \div 100, (99 * Scale) \div 100))
         ELSE updateRowSplit(draggingLine.index, clampValue(ratio, Scale \div 100, (99 * Scale) \div 100))

\* a pointerup event on the window: handleUp
pointerUp ==
    /\ draggingLine # NoLine
    /\ draggingLine' = NoLine
    /\ UNCHANGED <<workVars, sliceModeId, customRows, customCols, customRowSplits, customColSplits,
                   splitMoves, imageVars, zipVars>>

\* Bounds of the drag model
DragImage == [width |-> 12, height |-> 6]
DragGridInputs == {NaN, Num(2), Num(4)}
PointerRatios == {0 - Scale \div 2, (45 * Scale) \div 100, (3 * Scale) \div 2}
DragModes == {"2x2", CUSTOM_MODE_ID}

\* the page with a master image loaded
DragInit ==
    /\ GridDefault
    /\ imageDimensions = DragImage
    /\ slices = << >>
    /\ ZipDefault
    /\ WorkDefault

DragNext ==
    \/ \E mode \in DragModes : selectSliceMode(mode)
    \/ \E value \in DragGridInputs : updateCustomRows(value)
    \/ \E value \in DragGridInputs : updateCustomCols(value)
    \/ resetCustomSplits
    \/ \E axis \in {"row", "col"}, idx \in 0..(MAX_CUSTOM_GRID - 2) : pointerDown(axis, idx)
    \/ \E ratio \in PointerRatios : pointerMove(ratio)
    \/ pointerUp

SpecDrag == DragInit /\ [][DragNext]_vars

----------------------------------------------------------------------------
(* Slicing: the rectangles computed by performSlice's img.onload *)

\* (mutant of sliceSize: the size is not raised to 1)
sliceSizeUnfloored(next, start) == next - start

\* Math.max(1, nextY - startY) and Math.max(1, nextX - startX)
sliceSize(next, start) == Max(1, next - start)

\* One pass of the row loop (or of the column loop of one row) over an image
\* dimension: the list of [start, size] pairs, one per slice.  acc is the
\* running variable y (or x); the loop assigns it nextY (nextX).
RECURSIVE walkAxis(_, _, _, _, _)
walkAxis(fractions, count, dimension, k, acc) ==
    IF k >= count THEN << >>
    ELSE LET start == MathRound(acc, 1)
             next == IF k = count - 1 THEN dimension
                     ELSE MathRound(acc * Scale + fractions[k + 1] * dimension, Scale)
         IN <<[start |-> start, size |-> sliceSize(next, start)]>>
            \o walkAxis(fractions, count, dimension, k + 1, next)

\* newSlices in index order (index = row * gridColCount + col)
sliceRects(rowFr, colFr, rowCount, colCount, width, height) ==
    LET ys == walkAxis(rowFr, rowCount, height, 0, 0)
        xs == walkAxis(colFr, colCount, width, 0, 0)
    IN [index \in 1..(rowCount * colCount) |->
          LET row == (index - 1) \div colCount
              col == (index - 1) % colCount
          IN [row |-> row, col |-> col,
              x |-> xs[col + 1].start, y |-> ys[row + 1].start,
              width |-> xs[col + 1].size, height |-> ys[row + 1].size]]

\* performSlice, from the click to the setSlices of the last blob callback
performSlice ==
    /\ imageDimensions # NoImage
    /\ slices' = sliceRects(rowFractions, colFractions, gridRowCount, gridColCount,
                            imageDimensions.width, imageDimensions.height)
    /\ UNCHANGED <<workVars, gridVars, imageDimensions, zipVars>>

\* Bounds of the slicing model
ImageSizes == {1, 6, 12, 301}
SliceRawValues == {0 - Scale, (45 * Scale) \div 100}

\* Split arrays of an axis with count slices: the even default, or the even
\* default after one updateRowSplit / updateColSplit call
SplitChoices(count) ==
    {buildEvenSplits(count)} \cup
    { setSplit(buildEvenSplits(count), count, index, value) :
        index \in 0..(count - 2), value \in SliceRawValues }

\* Every state the page can be in when the slice button is pressed: a preset
\* mode with the untouched custom grid, or the custom mode with any counts
\* and split arrays, and a loaded master image.
SliceInit ==
    /\ sliceModeId \in ModeIds
    /\ customRows \in 1..MAX_CUSTOM_GRID
    /\ customCols \in 1..MAX_CUSTOM_GRID
    /\ ~isCustomMode(sliceModeId) => customRows = 3 /\ customCols = 3
    /\ customRowSplits \in SplitChoices(customRows)
    /\ customColSplits \in SplitChoices(customCols)
    /\ ~isCustomMode(sliceModeId) =>
          customRowSplits = buildEvenSplits(3) /\ customColSplits = buildEvenSplits(3)
    /\ imageDimensions \in [width : ImageSizes, height : ImageSizes]
    /\ slices = << >>
    /\ splitMoves = 0
    /\ draggingLine = NoLine
    /\ ZipDefault
    /\ WorkDefault

SliceNext == performSlice

SpecSlice == SliceInit /\ [][SliceNext]_vars

----------------------------------------------------------------------------
(* One breakpoint move from any custom grid *)

\* Every custom grid a handle can be grabbed in: any counts, each axis at
\* its even default or one move away from it
MoveInit ==
    /\ sliceModeId = CUSTOM_MODE_ID
    /\ customRows \in 1..MAX_CUSTOM_GRID
    /\ customCols \in 1..MAX_CUSTOM_GRID
    /\ customRowSplits \in SplitChoices(customRows)
    /\ customColSplits \in SplitChoices(customCols)
    /\ splitMoves = 0
    /\ draggingLine = NoLine
    /\ ImageDefault
    /\ ZipDefault
    /\ WorkDefault

\* the first updateRowSplit / updateColSplit call made on that grid
MoveNext ==
    /\ splitMoves = 0
    /\ \/ \E index \in 0..(Len(customRowSplits) - 1), value \in RawValues : updateRowSplit(index, value)
       \/ \E index \in 0..(Len(customColSplits) - 1), value \in RawValues : updateColSplit(index, value)

SpecMove == MoveInit /\ [][MoveNext]_vars

----------------------------------------------------------------------------
(* Workflow: master image, slicing runs *)

\* The images that can be loaded are numbered; image k has the natural size
\* WorkImageSize(k).
MaxImages == 2
WorkImages == 1..MaxImages
WorkImageSize(image) == [width |-> 5 * image, height |-> 4]

\* the latest value Date.now() returns in one behaviour
MaxClock == 1

\* an empty slot of newSlices, and the undefined that a splice past the end
\* of the processing area hands out
UndefinedItem == [id |-> << >>]
\* enhancedDataUrl, enhanceError and enhanceProgress when undefined
NoUrl == 0
NoError == ""
NoProgress == 0 - 1

\* The render reads item.id of every entry of the processing area: with an
\* undefined entry it throws and the page is replaced by the error screen,
\* so no handler of the page runs any more.  Callbacks and async functions
\* already started still run.
Rendered == \A k \in 1..Len(processingArea) : processingArea[k] # UndefinedItem

\* canvas.toDataURL('image/png') of slice index of an image, as a number
sliceDataUrl(image, index) == 10 * image + index

\* the SliceItem made by the blob callback of slice index at time t
newSliceItem(image, rect, index, t) ==
    [id |-> <<t, index>>, index |-> index, dataUrl |-> sliceDataUrl(image, index),
     selected |-> FALSE, enhanced |-> FALSE,
     row |-> rect.row, col |-> rect.col, width |-> rect.width, height |-> rect.height,
     enhancedDataUrl |-> NoUrl, enhancing |-> FALSE, enhanceError |-> NoError,
     enhanceProgress |-> NoProgress]

\* (mutant of handleImageUpload: the processing area is emptied with slices)
handleImageUploadClearArea(image) ==
    /\ Rendered
    /\ masterImage' = image
    /\ dimensionLoads' = dimensionLoads \cup {image}
    /\ slices' = << >>
    /\ processingArea' = << >>
    /\ UNCHANGED <<gridVars, zipVars, imageDimensions, sliceRuns, timelineItems,
                   processingDragIndex, isEnhancing, enhanceRuns, clock>>

\* reader.onload of handleImageUpload(file): the file has been read
handleImageUpload(image) ==
    /\ Rendered
    /\ masterImage' = image
    /\ dimensionLoads' = dimensionLoads \cup {image}
    /\ slices' = << >>
    /\ UNCHANGED <<gridVars, zipVars, imageDimensions, sliceRuns, timelineItems, processingArea,
                   processingDragIndex, isEnhancing, enhanceRuns, clock>>

\* handleLoadFromHistory(generation): outputFile is an image, or NoMaster
\* when the generation has no output file
handleLoadFromHistory(outputFile) ==
    /\ Rendered
    /\ IF outputFile # NoMaster
       THEN /\ masterImage' = outputFile
            /\ dimensionLoads' = dimensionLoads \cup {outputFile}
            /\ slices' = << >>
       ELSE UNCHANGED <<masterImage, dimensionLoads, slices>>
    /\ UNCHANGED <<gridVars, zipVars, imageDimensions, sliceRuns, timelineItems, processingArea,
                   processingDragIndex, isEnhancing, enhanceRuns, clock>>

\* img.onload of the two handlers above: setImageDimensions
dimensionOnload(image) ==
    /\ image \in dimensionLoads
    /\ dimensionLoads' = dimensionLoads \ {image}
    /\ imageDimensions' = WorkImageSize(image)
    /\ UNCHANGED <<gridVars, zipVars, slices, masterImage, sliceRuns, timelineItems,
                   processingArea, processingDragIndex, isEnhancing, enhanceRuns, clock>>

\* the first performSlice call not yet made
nextSliceRun == CHOOSE r \in SliceRunIds :
                    /\ sliceRuns[r].pc = "idle"
                    /\ \A q \in SliceRunIds : q < r => sliceRuns[q].pc # "idle"

\* performSlice up to img.src = masterImage; the callback keeps the values
\* of this render: masterImage, the fractions, the counts, timelineItems.length
slicePressed ==
    /\ Rendered
    /\ masterImage # NoMaster
    /\ \E r \in SliceRunIds : sliceRuns[r].pc = "idle"
    /\ sliceRuns' = [sliceRuns EXCEPT ![nextSliceRun] =
                        [pc |-> "loading", image |-> masterImage,
                         rows |-> gridRowCount, cols |-> gridColCount,
                         rowFractions |-> rowFractions, colFractions |-> colFractions,
                         label |-> Len(timelineItems) + 1, newSlices |-> << >>]]
    /\ UNCHANGED <<gridVars, zipVars, imageVars, masterImage, dimensionLoads, timelineItems,
                   processingArea, processingDragIndex, isEnhancing, enhanceRuns, clock>>

\* img.onload of performSlice: the rectangles are computed, one canvas is
\* drawn per slice and one toBlob is started per canvas
sliceOnload(r) ==
    /\ sliceRuns[r].pc = "loading"
    /\ LET run == sliceRuns[r]
       IN sliceRuns' = [sliceRuns EXCEPT ![r] =
              [run EXCEPT !.pc = "blobs",
                          !.newSlices = [k \in 1..(run.rows * run.cols) |-> UndefinedItem]]]
    /\ UNCHANGED <<gridVars, zipVars, imageVars, masterImage, dimensionLoads, timelineItems,
                   processingArea, processingDragIndex, isEnhancing, enhanceRuns, clock>>

\* newSlices.filter(Boolean).length
filledCount(newSlices) == Cardinality({k \in 1..Len(newSlices) : newSlices[k] # UndefinedItem})

\* newSlices.filter(Boolean).length === gridRowCount * gridColCount
publishDue(filled, total) == filled = total

\* the toBlob callback of slice index (0-based) of run r, at time t
blobCallback(r, index, t) ==
    /\ sliceRuns[r].pc = "blobs"
    /\ index < Len(sliceRuns[r].newSlices)
    /\ sliceRuns[r].newSlices[index + 1] = UndefinedItem
    /\ t >= clock
    /\ clock' = t
    /\ LET run == sliceRuns[r]
           size == WorkImageSize(run.image)
           rects == sliceRects(run.rowFractions, run.colFractions, run.rows, run.cols,
                               size.width, size.height)
           filled == [run.newSlices EXCEPT ![index + 1] =
                         newSliceItem(run.image, rects[index + 1], index, t)]
           complete == publishDue(filledCount(filled), run.rows * run.cols)
       IN /\ sliceRuns' = [sliceRuns EXCEPT ![r] =
                 [run EXCEPT !.newSlices = filled,
                             !.pc = IF filledCount(filled) = Len(filled) THEN "done" ELSE "blobs"]]
          /\ slices' = IF complete THEN filled ELSE slices
          /\ timelineItems' =
                 IF complete
                 THEN Append(timelineItems,
                             [id |-> t, label |-> run.label, imageUrl |-> run.image])
                 ELSE timelineItems
    /\ UNCHANGED <<gridVars, zipVars, imageDimensions, masterImage, dimensionLoads,
                   processingArea, processingDragIndex, isEnhancing, enhanceRuns>>

----------------------------------------------------------------------------
(* Workflow: slice selection and the processing area *)

\* array.map(f) and array.filter(keep)
mapItems(items, f(_)) == [k \in 1..Len(items) |-> f(items[k])]
filterItems(items, keep(_)) == SelectSeq(items, keep)

itemIds(items) == { items[k].id : k \in 1..Len(items) }

\* setSlices(prev => prev.map(s => s.id === sliceId ? {...s, selected: !s.selected} : s))
toggleSliceSelection(sliceId) ==
    /\ Rendered
    /\ sliceId \in itemIds(slices)
    /\ slices' = mapItems(slices, LAMBDA s : IF s.id = sliceId
                                              THEN [s EXCEPT !.selected = ~s.selected] ELSE s)
    /\ UNCHANGED <<gridVars, zipVars, workVars, imageDimensions>>

\* the button is rendered when slices.length > 0
toggleSelectAll ==
    /\ Rendered
    /\ Len(slices) > 0
    /\ LET allSelected == \A k \in 1..Len(slices) : slices[k].selected
       IN slices' = mapItems(slices, LAMBDA s : [s EXCEPT !.selected = ~allSelected])
    /\ UNCHANGED <<gridVars, zipVars, workVars, imageDimensions>>

\* (mutant of appendNew: items already present are appended again)
appendAll(prev, candidates) == prev \o candidates

\* [...prev, ...candidates.filter(s => !existingIds.has(s.id))]
appendNew(prev, candidates) ==
    LET existingIds == itemIds(prev)
    IN prev \o filterItems(candidates, LAMBDA s : s.id \notin existingIds)

\* the button is rendered when slices.some(s => s.selected)
addToProcessingArea ==
    /\ Rendered
    /\ \E k \in 1..Len(slices) : slices[k].selected
    /\ processingArea' = appendNew(processingArea, filterItems(slices, LAMBDA s : s.selected))
    /\ UNCHANGED <<gridVars, zipVars, imageVars, masterImage, dimensionLoads, sliceRuns,
                   timelineItems, processingDragIndex, isEnhancing, enhanceRuns, clock>>

\* the buttons are rendered or enabled when slices.length > 0
addAllToProcessing ==
    /\ Rendered
    /\ Len(slices) > 0
    /\ processingArea' = appendNew(processingArea, slices)
    /\ UNCHANGED <<gridVars, zipVars, imageVars, masterImage, dimensionLoads, sliceRuns,
                   timelineItems, processingDragIndex, isEnhancing, enhanceRuns, clock>>

\* setProcessingArea(prev => prev.filter(p => p.id !== sliceId))
removeFromProcessingArea(sliceId) ==
    /\ Rendered
    /\ sliceId \in itemIds(processingArea)
    /\ processingArea' = filterItems(processingArea, LAMBDA p : p.id # sliceId)
    /\ UNCHANGED <<gridVars, zipVars, imageVars, masterImage, dimensionLoads, sliceRuns,
                   timelineItems, processingDragIndex, isEnhancing, enhanceRuns, clock>>

\* onDragStart of the item rendered at index
handleProcessingDragStart(index) ==
    /\ Rendered
    /\ index \in 0..(Len(processingArea) - 1)
    /\ processingDragIndex' = index
    /\ UNCHANGED <<gridVars, zipVars, imageVars, masterImage, dimensionLoads, sliceRuns,
                   timelineItems, processingArea, isEnhancing, enhanceRuns, clock>>

\* const [dragged] = copy.splice(from, 1): the element taken out, undefined
\* when from is past the end, and what is left
spliceOut(copy, from) ==
    IF from < Len(copy)
    THEN [dragged |-> copy[from + 1],
          rest |-> SubSeq(copy, 1, from) \o SubSeq(copy, from + 2, Len(copy))]
    ELSE [dragged |-> UndefinedItem, rest |-> copy]

\* copy.splice(at, 0, item): past the end the item is appended
spliceIn(copy, at, item) ==
    LET pos == Min(at, Len(copy))
    IN SubSeq(copy, 1, pos) \o <<item>> \o SubSeq(copy, pos + 1, Len(copy))

\* the updater of handleProcessingDrop
moveItem(prev, from, to) ==
    LET out == spliceOut(prev, from)
    IN spliceIn(out.rest, to, out.dragged)

\* onDrop of the item rendered at dropIndex
handleProcessingDrop(dropIndex) ==
    /\ Rendered
    /\ dropIndex \in 0..(Len(processingArea) - 1)
    /\ processingArea' =
          IF processingDragIndex = NoDragIndex \/ processingDragIndex = dropIndex
          THEN processingArea
          ELSE moveItem(processingArea, processingDragIndex, dropIndex)
    /\ processingDragIndex' = NoDragIndex
    /\ UNCHANGED <<gridVars, zipVars, imageVars, masterImage, dimensionLoads, sliceRuns,
                   timelineItems, isEnhancing, enhanceRuns, clock>>

\* onDragEnd
handleProcessingDragEnd ==
    /\ Rendered
    /\ processingDragIndex' = NoDragIndex
    /\ UNCHANGED <<gridVars, zipVars, imageVars, masterImage, dimensionLoads, sliceRuns,
                   timelineItems, processingArea, isEnhancing, enhanceRuns, clock>>

----------------------------------------------------------------------------
(* Workflow: enhancement *)

ENHANCE_POLL_MAX_ATTEMPTS == 90

\* error texts: '生成失败', '生成任务创建失败', '生成超时', and the message of
\* a network error
MsgFailed == "generation failed"
MsgNotCreated == "task not created"
MsgTimeout == "generation timed out"
MsgNetwork == "network error"

\* buildFileUrl(fileId), as a number apart from every sliceDataUrl
buildFileUrl(fileId) == 100 + fileId

\* gen.progress in hundredths (50 is 0.5, 5000 is 50): a value up to 1 is a
\* ratio, a larger one a percentage; the result is a percentage in 0..100
normalizeProgress(progress) ==
    clampValue(IF progress <= 100 THEN progress ELSE progress \div 100, 0, 100)

\* the four setProcessingArea updaters of performEnhance
markEnhancing(prev, sliceId) ==
    mapItems(prev, LAMBDA p : IF p.id = sliceId
                               THEN [p EXCEPT !.enhancing = TRUE, !.enhanceProgress = 0,
                                              !.enhanceError = NoError]
                               ELSE p)

markProgress(prev, sliceId, progress) ==
    mapItems(prev, LAMBDA p : IF p.id = sliceId THEN [p EXCEPT !.enhanceProgress = progress]
                               ELSE p)

markFailed(prev, sliceId, msg) ==
    mapItems(prev, LAMBDA p : IF p.id = sliceId
                               THEN [p EXCEPT !.enhancing = FALSE, !.enhanceError = msg,
                                              !.enhanceProgress = NoProgress]
                               ELSE p)

markEnhanced(prev, sliceId, resultUrl) ==
    mapItems(prev, LAMBDA p : IF p.id = sliceId
                               THEN [p EXCEPT !.enhancing = FALSE, !.enhanced = TRUE,
                                              !.enhancedDataUrl = resultUrl,
                                              !.enhanceProgress = 100]
                               ELSE p)

\* the setSlices updater of performEnhance
markSliceEnhanced(prev, sliceId, resultUrl) ==
    mapItems(prev, LAMBDA s : IF s.id = sliceId
                               THEN [s EXCEPT !.enhanced = TRUE, !.enhancedDataUrl = resultUrl]
                               ELSE s)

\* the first performEnhance call not yet made
nextEnhanceRun == CHOOSE e \in EnhanceRunIds :
                      /\ enhanceRuns[e].pc = "idle"
                      /\ \A q \in EnhanceRunIds : q < e => enhanceRuns[q].pc # "idle"

\* (mutant of enhanceEnabled: the button stays enabled during a run)
enhanceEnabledAlways == Len(processingArea) > 0

\* disabled={processingArea.length === 0 || isEnhancing}
enhanceEnabled == Len(processingArea) > 0 /\ ~isEnhancing

\* queue[i] of run e
currentSlice(e) == enhanceRuns[e].queue[enhanceRuns[e].i + 1]

\* performEnhance from the click to the first await: the queue is copied and
\* its first item marked
enhancePressed ==
    /\ Rendered
    /\ enhanceEnabled
    /\ \E e \in EnhanceRunIds : enhanceRuns[e].pc = "idle"
    /\ isEnhancing' = TRUE
    /\ enhanceRuns' = [enhanceRuns EXCEPT ![nextEnhanceRun] =
                          [pc |-> "file", queue |-> processingArea, i |-> 0, attempt |-> 0,
                           submitted |-> << >>, returned |-> ""]]
    /\ processingArea' = markEnhancing(processingArea, processingArea[1].id)
    /\ UNCHANGED <<gridVars, zipVars, imageVars, masterImage, dimensionLoads, sliceRuns,
                   timelineItems, processingDragIndex, clock>>

\* (mutant of failItem: the loop goes on with the next item after a failure)
failItemContinue(e, msg, returned) ==
    LET run == enhanceRuns[e]
        failed == markFailed(processingArea, currentSlice(e).id, msg)
    IN /\ IF run.i + 1 < Len(run.queue)
          THEN /\ processingArea' = markEnhancing(failed, run.queue[run.i + 2].id)
               /\ enhanceRuns' = [enhanceRuns EXCEPT ![e].pc = "file", ![e].i = run.i + 1,
                                                      ![e].attempt = 0,
                                                      ![e].returned = returned]
               /\ UNCHANGED isEnhancing
          ELSE /\ processingArea' = failed
               /\ enhanceRuns' = [enhanceRuns EXCEPT ![e].pc = "failed", ![e].attempt = 0,
                                                      ![e].returned = returned]
               /\ isEnhancing' = FALSE
       /\ UNCHANGED slices

\* the item of run e has failed with msg: it is marked, the loop is left and
\* setIsEnhancing(false) is called.  returned is what waitForGeneration gave
\* back, if it was reached ("timeout" when it threw); attempt is a variable
\* of the call that is over and is set back to 0.
failItem(e, msg, returned) ==
    /\ processingArea' = markFailed(processingArea, currentSlice(e).id, msg)
    /\ enhanceRuns' = [enhanceRuns EXCEPT ![e].pc = "failed", ![e].attempt = 0,
                                           ![e].returned = returned]
    /\ isEnhancing' = FALSE
    /\ UNCHANGED slices

\* the item of run e has succeeded: it is marked in the processing area and
\* in slices; the loop goes on to the next item of the queue, or
\* setIsEnhancing(false) is called after the last one
succeedItem(e, resultUrl, returned) ==
    LET run == enhanceRuns[e]
        enhanced == markEnhanced(processingArea, currentSlice(e).id, resultUrl)
    IN /\ slices' = markSliceEnhanced(slices, currentSlice(e).id, resultUrl)
       /\ IF run.i + 1 < Len(run.queue)
          THEN /\ processingArea' = markEnhancing(enhanced, run.queue[run.i + 2].id)
               /\ enhanceRuns' = [enhanceRuns EXCEPT ![e].pc = "file", ![e].i = run.i + 1,
                                                      ![e].attempt = 0,
                                                      ![e].returned = returned]
               /\ UNCHANGED isEnhancing
          ELSE /\ processingArea' = enhanced
               /\ enhanceRuns' = [enhanceRuns EXCEPT ![e].pc = "done", ![e].attempt = 0,
                                                      ![e].returned = returned]
               /\ isEnhancing' = FALSE

\* await buildSliceFile(slice, i) has settled; when it resolved,
\* api.generateImages is called with the file
sliceFileBuilt(e, resolved) ==
    /\ enhanceRuns[e].pc = "file"
    /\ IF resolved
       THEN /\ enhanceRuns' = [enhanceRuns EXCEPT
                                  ![e].pc = "submit",
                                  ![e].submitted = Append(@, currentSlice(e).id)]
            /\ UNCHANGED <<processingArea, isEnhancing, slices>>
       ELSE failItem(e, MsgNetwork, "")
    /\ UNCHANGED <<gridVars, zipVars, imageDimensions, masterImage, dimensionLoads, sliceRuns,
                   timelineItems, processingDragIndex, clock>>

\* await api.generateImages(...) has settled: "created" with a generation
\* id, "empty" without one, "throws" when the request failed
generateAnswered(e, answer) ==
    /\ enhanceRuns[e].pc = "submit"
    /\ IF answer = "created"
       THEN /\ enhanceRuns' = [enhanceRuns EXCEPT ![e].pc = "poll", ![e].attempt = 0]
            /\ UNCHANGED <<processingArea, isEnhancing, slices>>
       ELSE failItem(e, IF answer = "empty" THEN MsgNotCreated ELSE MsgNetwork, "")
    /\ UNCHANGED <<gridVars, zipVars, imageDimensions, masterImage, dimensionLoads, sliceRuns,
                   timelineItems, processingDragIndex, clock>>

\* (mutant of pollAgain: after the last attempt the count starts over)
pollAgainStartOver(e, progress) ==
    /\ enhanceRuns' = [enhanceRuns EXCEPT
                           ![e].attempt = (@ + 1) % ENHANCE_POLL_MAX_ATTEMPTS]
    /\ processingArea' = IF progress # NoProgress
                         THEN markProgress(processingArea, currentSlice(e).id,
                                           normalizeProgress(progress))
                         ELSE processingArea
    /\ UNCHANGED <<isEnhancing, slices>>

\* the end of one pass of the loop of waitForGeneration that did not
\* return: after the pause the next attempt is made, or the loop is over and
\* the timeout error thrown
pollAgain(e, progress) ==
    IF enhanceRuns[e].attempt + 1 < ENHANCE_POLL_MAX_ATTEMPTS
    THEN /\ enhanceRuns' = [enhanceRuns EXCEPT ![e].attempt = @ + 1]
         /\ processingArea' = IF progress # NoProgress
                              THEN markProgress(processingArea, currentSlice(e).id,
                                                normalizeProgress(progress))
                              ELSE processingArea
         /\ UNCHANGED <<isEnhancing, slices>>
    ELSE failItem(e, MsgTimeout, "timeout")

\* one pass of the loop of waitForGeneration: await api.getGeneration(id)
\* has settled with gen (fetched = FALSE when it threw), and what follows up
\* to the next await
generationPolled(e, gen) ==
    /\ enhanceRuns[e].pc = "poll"
    /\ IF ~gen.fetched THEN pollAgain(e, NoProgress)
       ELSE IF gen.status \notin {"succeeded", "failed"} THEN pollAgain(e, gen.progress)
       ELSE IF gen.status # "succeeded" \/ gen.outputFile = 0
            THEN failItem(e, IF gen.error # "" THEN gen.error ELSE MsgFailed, gen.status)
            ELSE succeedItem(e, buildFileUrl(gen.outputFile), gen.status)
    /\ UNCHANGED <<gridVars, zipVars, imageDimensions, masterImage, dimensionLoads, sliceRuns,
                   timelineItems, processingDragIndex, clock>>

----------------------------------------------------------------------------
(* Image loads and slicing runs *)

\* values typed into the column-count input between slicing runs
LoadGridInputs == {Num(1), Num(2)}
\* the output file of a generation picked from the history: an image or none
LoadOutputFiles == WorkImages \cup {NoMaster}

\* The page after the custom mode was chosen and 1 row, 2 columns typed in
LoadInit ==
    /\ sliceModeId = CUSTOM_MODE_ID
    /\ customRows = 1
    /\ customCols = 2
    /\ customRowSplits = buildEvenSplits(1)
    /\ customColSplits = buildEvenSplits(2)
    /\ splitMoves = 0
    /\ draggingLine = NoLine
    /\ ImageDefault
    /\ ZipDefault
    /\ WorkDefault

LoadNext ==
    \/ \E image \in WorkImages : handleImageUpload(image)
    \/ \E outputFile \in LoadOutputFiles : handleLoadFromHistory(outputFile)
    \/ \E image \in WorkImages : dimensionOnload(image)
    \/ \E value \in LoadGridInputs : updateCustomCols(value)
    \/ slicePressed
    \/ \E r \in SliceRunIds : sliceOnload(r)
    \/ \E r \in SliceRunIds, index \in 0..1, t \in 0..MaxClock : blobCallback(r, index, t)
    \/ addAllToProcessing

SpecLoad == LoadInit /\ [][LoadNext]_vars

----------------------------------------------------------------------------
(* Enhancement runs on a sliced image *)

\* the record of a performSlice call on image with a custom grid of rows x
\* cols even slices, all of whose blob callbacks fired at time t
completedSliceRun(image, rows, cols, t) ==
    LET rowFr == buildFractions(buildStops(rows, buildEvenSplits(rows)))
        colFr == buildFractions(buildStops(cols, buildEvenSplits(cols)))
        size == WorkImageSize(image)
        rects == sliceRects(rowFr, colFr, rows, cols, size.width, size.height)
    IN [pc |-> "done", image |-> image, rows |-> rows, cols |-> cols,
        rowFractions |-> rowFr, colFractions |-> colFr, label |-> 1,
        newSlices |-> [k \in 1..(rows * cols) |-> newSliceItem(image, rects[k], k - 1, t)]]

\* The page after image 1 was uploaded, the custom mode chosen with 1 row
\* and cols columns, and one slicing run completed
SlicedInit(cols) ==
    /\ sliceModeId = CUSTOM_MODE_ID
    /\ customRows = 1
    /\ customCols = cols
    /\ customRowSplits = buildEvenSplits(1)
    /\ customColSplits = buildEvenSplits(cols)
    /\ splitMoves = 0
    /\ draggingLine = NoLine
    /\ imageDimensions = WorkImageSize(1)
    /\ slices = completedSliceRun(1, 1, cols, 0).newSlices
    /\ ZipDefault
    /\ masterImage = 1
    /\ dimensionLoads = {}
    /\ sliceRuns = [r \in SliceRunIds |->
                      IF r = 1 THEN completedSliceRun(1, 1, cols, 0) ELSE NoSliceRun]
    /\ timelineItems = <<[id |-> 0, label |-> 1, imageUrl |-> 1]>>
    /\ processingArea = << >>
    /\ processingDragIndex = NoDragIndex
    /\ isEnhancing = FALSE
    /\ enhanceRuns = [e \in EnhanceRunIds |-> NoEnhanceRun]
    /\ clock = 0

\* ids of the slices an item can have in these runs
SlicedIds(cols) == { <<0, index>> : index \in 0..(cols - 1) }

\* what api.generateImages answers
GenerateAnswers == {"created", "empty", "throws"}

\* what api.getGeneration answers: a failed fetch, a running generation
\* and the two final statuses with and without output file and error text
PollAnswers ==
    { [fetched |-> FALSE, status |-> "", outputFile |-> 0, error |-> "", progress |-> NoProgress],
      [fetched |-> TRUE, status |-> "running", outputFile |-> 0, error |-> "", progress |-> 50],
      [fetched |-> TRUE, status |-> "succeeded", outputFile |-> 7, error |-> "", progress |-> 100],
      [fetched |-> TRUE, status |-> "succeeded", outputFile |-> 0, error |-> "", progress |-> 100],
      [fetched |-> TRUE, status |-> "failed", outputFile |-> 0, error |-> "quota", progress |-> NoProgress],
      [fetched |-> TRUE, status |-> "failed", outputFile |-> 0, error |-> "", progress |-> 5000] }

EnhanceCols == 2

\* the processing areas performEnhance is started on: the slices of the run
\* in slice order and in drag-reordered order
EnhanceAreas ==
    LET all == completedSliceRun(1, 1, EnhanceCols, 0).newSlices
    IN { all, moveItem(all, 0, 1) }

EnhanceInit ==
    /\ sliceModeId = CUSTOM_MODE_ID
    /\ customRows = 1
    /\ customCols = EnhanceCols
    /\ customRowSplits = buildEvenSplits(1)
    /\ customColSplits = buildEvenSplits(EnhanceCols)
    /\ splitMoves = 0
    /\ draggingLine = NoLine
    /\ imageDimensions = WorkImageSize(1)
    /\ slices = completedSliceRun(1, 1, EnhanceCols, 0).newSlices
    /\ ZipDefault
    /\ masterImage = 1
    /\ dimensionLoads = {}
    /\ sliceRuns = [r \in SliceRunIds |->
                      IF r = 1 THEN completedSliceRun(1, 1, EnhanceCols, 0) ELSE NoSliceRun]
    /\ timelineItems = <<[id |-> 0, label |-> 1, imageUrl |-> 1]>>
    /\ processingArea \in EnhanceAreas
    /\ processingDragIndex = NoDragIndex
    /\ isEnhancing = FALSE
    /\ enhanceRuns = [e \in EnhanceRunIds |-> NoEnhanceRun]
    /\ clock = 0

\* the steps of a running performEnhance
EnhanceProgress ==
    \/ \E e \in EnhanceRunIds, resolved \in BOOLEAN : sliceFileBuilt(e, resolved)
    \/ \E e \in EnhanceRunIds, answer \in GenerateAnswers : generateAnswered(e, answer)
    \/ \E e \in EnhanceRunIds, gen \in PollAnswers : generationPolled(e, gen)

EnhanceNext == enhancePressed \/ EnhanceProgress

SpecEnhance == EnhanceInit /\ [][EnhanceNext]_vars

\* every await of a running performEnhance settles
FairSpecEnhance == SpecEnhance /\ WF_vars(EnhanceProgress)

----------------------------------------------------------------------------
(* Enhancement runs while the processing area is edited *)

\* answers of api.getGeneration that end the wait at once
FinalPollAnswers == { gen \in PollAnswers : gen.fetched /\ gen.status \in {"succeeded", "failed"} }

BusyInit == SlicedInit(EnhanceCols)

BusyNext ==
    \/ addAllToProcessing
    \/ \E sliceId \in SlicedIds(EnhanceCols) : removeFromProcessingArea(sliceId)
    \/ \E index \in 0..(EnhanceCols - 1) : handleProcessingDragStart(index)
    \/ \E dropIndex \in 0..(EnhanceCols - 1) : handleProcessingDrop(dropIndex)
    \/ handleProcessingDragEnd
    \/ enhancePressed
    \/ \E e \in EnhanceRunIds, resolved \in BOOLEAN : sliceFileBuilt(e, resolved)
    \/ \E e \in EnhanceRunIds, answer \in GenerateAnswers : generateAnswered(e, answer)
    \/ \E e \in EnhanceRunIds, gen \in FinalPollAnswers : generationPolled(e, gen)

SpecBusy == BusyInit /\ [][BusyNext]_vars

----------------------------------------------------------------------------
(* The processing area and the export of its items *)

\* the bytes fetch(dataUrl) resolves to: one byte that tells the URLs apart
fetchBytes(dataUrl) == <<dataUrl % 256>>

\* const dataUrl = slice.enhancedDataUrl || slice.dataUrl
shownUrl(slice) == IF slice.enhancedDataUrl # NoUrl THEN slice.enhancedDataUrl ELSE slice.dataUrl

\* toDownload = processingArea.filter(p => p.enhanced || p.dataUrl), and the
\* contents fetched for its items
exportContents(area) ==
    mapItems(filterItems(area, LAMBDA p : p.enhanced \/ p.dataUrl # NoUrl),
             LAMBDA slice : fetchBytes(shownUrl(slice)))

\* a click on the download button, which is disabled while the processing
\* area is empty: downloadSelected runs on the processing area of the render
downloadPressed(p) ==
    /\ Rendered
    /\ Len(processingArea) > 0
    /\ startExport(p, exportContents(processingArea))

\* columns of the sliced image the processing area is filled from
AreaCols == 3

\* the clock reading of the exports
AreaDate == [year |-> 2024, month |-> 11, day |-> 31, hours |-> 23, minutes |-> 59, seconds |-> 59]

\* the downloadSelected call made in these behaviours
AreaExports == {1}

AreaInit == SlicedInit(AreaCols)

AreaNext ==
    \/ \E sliceId \in SlicedIds(AreaCols) : toggleSliceSelection(sliceId)
    \/ toggleSelectAll
    \/ addToProcessingArea
    \/ addAllToProcessing
    \/ \E sliceId \in SlicedIds(AreaCols) : removeFromProcessingArea(sliceId)
    \/ \E index \in 0..(AreaCols - 1) : handleProcessingDragStart(index)
    \/ \E dropIndex \in 0..(AreaCols - 1) : handleProcessingDrop(dropIndex)
    \/ handleProcessingDragEnd
    \/ \E p \in AreaExports : downloadPressed(p)
    \/ \E p \in AreaExports : finishExport(p, AreaDate)

SpecArea == AreaInit /\ [][AreaNext]_vars

----------------------------------------------------------------------------
(* Properties of the slicing step (SpecSlice) *)

Rects == { slices[k] : k \in 1..Len(slices) }

RectInsideImage(r) ==
    /\ 0 <= r.x /\ r.x + r.width <= imageDimensions.width
    /\ 0 <= r.y /\ r.y + r.height <= imageDimensions.height

RectsOverlap(r, s) ==
    /\ r.x < s.x + s.width /\ s.x < r.x + r.width
    /\ r.y < s.y + s.height /\ s.y < r.y + r.height

RECURSIVE AreaSum(_)
AreaSum(k) == IF k = 0 THEN 0 ELSE slices[k].width * slices[k].height + AreaSum(k - 1)

\* C1 - Tiling completeness: the rectangles of a slicing run partition
\* [0,width) x [0,height): every pixel lies in exactly one rectangle.  Stated
\* without enumerating pixels: every rectangle lies inside the image, no two
\* rectangles share a pixel, and the areas add up to width * height.
C1_TilingComplete ==
    slices # << >> =>
        /\ \A r \in Rects : RectInsideImage(r)
        /\ \A k, l \in 1..Len(slices) : k < l => ~RectsOverlap(slices[k], slices[l])
        /\ AreaSum(Len(slices)) = imageDimensions.width * imageDimensions.height

\* C2 - Last-edge exactness: every rectangle of the last column ends at the
\* image width and every rectangle of the last row ends at the image height.
C2_LastEdgeExact ==
    \A r \in Rects :
        /\ r.col = gridColCount - 1 => r.x + r.width = imageDimensions.width
        /\ r.row = gridRowCount - 1 => r.y + r.height = imageDimensions.height

----------------------------------------------------------------------------
(* Properties of the split arrays (SpecGrid) *)

StrictlyInside(splits) ==
    /\ \A i \in 1..Len(splits) : 0 < splits[i] /\ splits[i] < Scale
    /\ \A i \in 1..(Len(splits) - 1) : splits[i] < splits[i + 1]

SpecGap(n) == Min(Scale \div 20, (3 * Scale) \div (5 * n))

GapsAtLeast(splits, g) ==
    LET stops == <<0>> \o splits \o <<Scale>>
    IN \A i \in 1..(Len(stops) - 1) : stops[i + 1] - stops[i] >= g

C9_Witness ==
    /\ splitMoves > 0
    /\ Len(customColSplits) >= 1
    /\ customColSplits[1] = SpecGap(customCols)

----------------------------------------------------------------------------
(* Properties of crc32 (SpecCrc) *)

\* The standard CRC-32, bit by bit, on a 32-bit register kept as the pair
\* <<high 16 bits, low 16 bits>>.  The generator polynomial is
\* x^32+x^26+x^23+x^22+x^16+x^12+x^11+x^10+x^8+x^7+x^5+x^4+x^2+x+1; in the
\* reflected register the coefficient of x^e is bit 31 - e.
RefExponents == {26, 23, 22, 16, 12, 11, 10, 8, 7, 5, 4, 2, 1, 0}

RefBit(n, i) == (n \div (2 ^ i)) % 2

RECURSIVE RefXor(_, _, _)
RefXor(a, b, i) ==
    IF i = 16 THEN 0
    ELSE ((RefBit(a, i) + RefBit(b, i)) % 2) * (2 ^ i) + RefXor(a, b, i + 1)

RECURSIVE RefPolyHalf(_, _)
RefPolyHalf(from, i) ==
    IF i = 16 THEN 0
    ELSE (IF (31 - (from + i)) \in RefExponents THEN 2 ^ i ELSE 0) + RefPolyHalf(from, i + 1)

RefPoly == <<RefPolyHalf(16, 0), RefPolyHalf(0, 0)>>

\* one message bit: shift right by one, and subtract the polynomial when the
\* bit shifted out differs from the message bit
RefShift(reg, inbit) ==
    LET feedback == ((reg[2] % 2) + inbit) % 2
        hi == reg[1] \div 2
        lo == (reg[2] \div 2) + (reg[1] % 2) * 32768
    IN IF feedback = 1 THEN <<RefXor(hi, RefPoly[1], 0), RefXor(lo, RefPoly[2], 0)>>
       ELSE <<hi, lo>>

RefByte(reg, byte) ==
    LET r1 == RefShift(reg, byte % 2)
        r2 == RefShift(r1, (byte \div 2) % 2)
        r3 == RefShift(r2, (byte \div 4) % 2)
        r4 == RefShift(r3, (byte \div 8) % 2)
        r5 == RefShift(r4, (byte \div 16) % 2)
        r6 == RefShift(r5, (byte \div 32) % 2)
        r7 == RefShift(r6, (byte \div 64) % 2)
    IN RefShift(r7, (byte \div 128) % 2)

RECURSIVE RefRegister(_, _)
RefRegister(data, n) ==
    IF n = 0 THEN <<65535, 65535>>
    ELSE Strict(RefRegister(data, n - 1), LAMBDA reg : RefByte(reg, data[n]))

\* the checksum as an unsigned <<hi, lo>> pair, after the final inversion
RefCrc32(data) ==
    LET final == RefRegister(data, Len(data))
    IN <<65535 - final[1], 65535 - final[2]>>

\* C6 - CRC-32 correctness: crc32 returns the standard reflected CRC-32 as an
\* unsigned 32-bit value: it equals the bit-by-bit reference for every byte
\* sequence, "123456789" gives 0xCBF43926 and the empty buffer gives 0.
C6_Crc32Standard ==
    crcValue # NoCrc =>
        /\ crcValue[1] \in 0..65535 /\ crcValue[2] \in 0..65535
        /\ crcValue = RefCrc32(crcData)
        /\ crcData = CheckVector => crcValue = <<52212, 14630>>
        /\ crcData = << >> => crcValue = <<0, 0>>

\* crc32 was called on "123456789" and the table is memoised
C6_Witness ==
    /\ crcData = CheckVector
    /\ crcValue = <<52212, 14630>>
    /\ crcTable # Null

----------------------------------------------------------------------------
(* Properties of buildZipBlob (SpecZip) *)

Built == zipBlob # Null

NameLen(i) == Len(encodeName(zipFiles[i].name))
DataLen(i) == Len(zipFiles[i].data)

\* total length of the first n local entries / central records
RECURSIVE LocalSpan(_)
LocalSpan(n) == IF n = 0 THEN 0 ELSE LocalSpan(n - 1) + 30 + NameLen(n) + DataLen(n)

RECURSIVE CentralSpan(_)
CentralSpan(n) == IF n = 0 THEN 0 ELSE CentralSpan(n - 1) + 46 + NameLen(n)

\* bytes pos .. pos + len - 1 of b (positions counted from 0); the empty
\* sequence when they are not all there
Field(b, pos, len) ==
    IF pos >= 0 /\ len >= 0 /\ pos + len <= Len(b) THEN SubSeq(b, pos + 1, pos + len) ELSE << >>

\* little-endian fields as numbers; -1 when absent or not below 2^31
RdU16(b, pos) ==
    IF pos >= 0 /\ pos + 2 <= Len(b) THEN b[pos + 1] + 256 * b[pos + 2] ELSE 0 - 1
RdU32(b, pos) ==
    IF pos >= 0 /\ pos + 4 <= Len(b) /\ b[pos + 4] < 128
    THEN b[pos + 1] + 256 * b[pos + 2] + 65536 * b[pos + 3] + 16777216 * b[pos + 4]
    ELSE 0 - 1

\* position of the i-th central record when the archive is laid out as
\* local entries, central records, end record
CentralPos(i) == LocalSpan(Len(zipFiles)) + CentralSpan(i - 1)

\* C4 - Offset bookkeeping: the local-header offset in the central record of
\* entry i is the sum over the earlier entries of 30 + name length + content
\* length, and entry i's local header starts at that byte of the archive.
C4_OffsetBookkeeping ==
    Built =>
        \A i \in 1..Len(zipFiles) :
            /\ Field(zipBlob, CentralPos(i) + 42, 4) = U32LE(LocalSpan(i - 1))
            /\ Field(zipBlob, LocalSpan(i - 1), 4) = U32LE(67324752)
            /\ Field(zipBlob, LocalSpan(i - 1) + 30, NameLen(i)) = encodeName(zipFiles[i].name)

\* three entries of 10, 0 and 25 bytes were archived
C4_Witness ==
    /\ Built
    /\ Len(zipFiles) = 3
    /\ DataLen(1) = 10 /\ DataLen(2) = 0 /\ DataLen(3) = 25
    /\ NameLen(2) > 0

\* C7 - Assembly order: the archive is the local entries (30-byte header,
\* name, content) in input order, then the central records (46-byte header,
\* name) in the same order, then one 22-byte end record, and nothing else.
C7_AssemblyOrder ==
    Built =>
        LET n == Len(zipFiles)
        IN /\ Len(zipBlob) = LocalSpan(n) + CentralSpan(n) + 22
           /\ \A i \in 1..n :
                /\ Field(zipBlob, LocalSpan(i - 1), 4) = <<80, 75, 3, 4>>
                /\ Field(zipBlob, LocalSpan(i - 1) + 30, NameLen(i)) = encodeName(zipFiles[i].name)
                /\ Field(zipBlob, LocalSpan(i - 1) + 30 + NameLen(i), DataLen(i)) = zipFiles[i].data
                /\ Field(zipBlob, CentralPos(i), 4) = <<80, 75, 1, 2>>
                /\ Field(zipBlob, CentralPos(i) + 46, NameLen(i)) = encodeName(zipFiles[i].name)
           /\ Field(zipBlob, LocalSpan(n) + CentralSpan(n), 4) = <<80, 75, 5, 6>>

\* two entries with different names and contents were archived
C7_Witness ==
    /\ Built
    /\ Len(zipFiles) = 2
    /\ zipFiles[1].name # zipFiles[2].name
    /\ DataLen(1) = 25 /\ DataLen(2) = 10

\* C8 - End record: both entry counts are the number of entries, the
\* directory size is the sum of 46 + name length, and the directory offset is
\* the length of the local region, where the first central record starts.
C8_EndRecord ==
    Built =>
        LET n == Len(zipFiles)
            end == Len(zipBlob) - 22
        IN /\ Field(zipBlob, end, 4) = <<80, 75, 5, 6>>
           /\ RdU16(zipBlob, end + 8) = n
           /\ RdU16(zipBlob, end + 10) = n
           /\ RdU32(zipBlob, end + 12) = CentralSpan(n)
           /\ RdU32(zipBlob, end + 16) = LocalSpan(n)
           /\ n > 0 => Field(zipBlob, RdU32(zipBlob, end + 16), 4) = <<80, 75, 1, 2>>

\* an archive whose local region and central directory differ in length
C8_Witness ==
    /\ Built
    /\ Len(zipFiles) = 3
    /\ LocalSpan(3) # CentralSpan(3)
    /\ DataLen(1) = 0 /\ NameLen(1) = 4

\* A reader: find the end record at the end of the archive, walk the central
\* directory from the recorded offset, and follow each local-header offset.
\* An entry is [name, data, crcOk]; a record that cannot be read ends the
\* walk with the entry Unreadable.
Unreadable == [name |-> << >>, data |-> << >>, crcOk |-> FALSE]

ReadEntry(b, pos) ==
    LET nameLen == RdU16(b, pos + 28)
        method == RdU16(b, pos + 10)
        storedCrc == <<RdU16(b, pos + 18), RdU16(b, pos + 16)>>
        csize == RdU32(b, pos + 20)
        usize == RdU32(b, pos + 24)
        off == RdU32(b, pos + 42)
        localNameLen == RdU16(b, off + 26)
        localExtraLen == RdU16(b, off + 28)
        data == Field(b, off + 30 + localNameLen + localExtraLen, csize)
    IN IF /\ Field(b, pos, 4) = <<80, 75, 1, 2>>
          /\ nameLen >= 0 /\ csize >= 0 /\ off >= 0
          /\ method = 0 /\ usize = csize
          /\ Field(b, off, 4) = <<80, 75, 3, 4>>
          /\ localNameLen >= 0 /\ localExtraLen >= 0
          /\ Len(Field(b, pos + 46, nameLen)) = nameLen
          /\ Len(data) = csize
       THEN [name |-> Field(b, pos + 46, nameLen), data |-> data,
             crcOk |-> storedCrc = RefCrc32(data)]
       ELSE Unreadable

RECURSIVE ReadCentral(_, _, _)
ReadCentral(b, pos, remaining) ==
    IF remaining <= 0 THEN << >>
    ELSE LET e == ReadEntry(b, pos)
             step == 46 + RdU16(b, pos + 28) + RdU16(b, pos + 30) + RdU16(b, pos + 32)
         IN IF e = Unreadable /\ Field(b, pos, 4) # <<80, 75, 1, 2>> THEN <<Unreadable>>
            ELSE <<e>> \o ReadCentral(b, pos + step, remaining - 1)

ReadArchive(b) ==
    LET end == Len(b) - 22
    IN IF Field(b, end, 4) = <<80, 75, 5, 6>> /\ RdU32(b, end + 16) >= 0
       THEN ReadCentral(b, RdU32(b, end + 16), RdU16(b, end + 10))
       ELSE <<Unreadable>>

DistinctNonEmptyNames ==
    /\ \A i \in 1..Len(zipFiles) : zipFiles[i].name # << >>
    /\ \A i, j \in 1..Len(zipFiles) : i # j => zipFiles[i].name # zipFiles[j].name

----------------------------------------------------------------------------
(* Properties of the grid-size inputs (SpecGrid) *)

\* the even default b_i = i/n of an axis with n slices
IsEvenDefault(splits, n) ==
    /\ Len(splits) = n - 1
    /\ \A i \in 1..Len(splits) : splits[i] * n = i * Scale

\* the count the specification prescribes for a typed value
SpecGridSize(value) ==
    IF ~value.finite THEN 1
    ELSE IF value.num < 1 THEN 1
    ELSE IF value.num > 8 THEN 8
    ELSE value.num

\* C11 - setGridSize: every updateCustomRows / updateCustomCols step, whatever
\* the typed value (not a number, below 1, above 8), leaves the count of that
\* axis in 1..8, equal to the clamped value, and leaves the breakpoints of
\* that axis at the even default i/n for the new count, whatever they were
\* before; the other axis is untouched.
C11_GridSizeStep ==
    \A value \in GridInputs :
        /\ updateCustomRows(value) =>
              /\ customRows' \in 1..8
              /\ customRows' = SpecGridSize(value)
              /\ IsEvenDefault(customRowSplits', customRows')
              /\ customCols' = customCols /\ customColSplits' = customColSplits
        /\ updateCustomCols(value) =>
              /\ customCols' \in 1..8
              /\ customCols' = SpecGridSize(value)
              /\ IsEvenDefault(customColSplits', customCols')
              /\ customRows' = customRows /\ customRowSplits' = customRowSplits

C11_SetGridSize == [][C11_GridSizeStep]_vars

\* after breakpoints were moved, a row count below 1 or not a number was
\* typed (only those inputs give one row) and the column count was typed as
\* 8 or 9: both axes sit at their even defaults
C11_Witness ==
    /\ isCustomMode(sliceModeId)
    /\ customRows = 1 /\ customRowSplits = << >>
    /\ customCols = 8 /\ IsEvenDefault(customColSplits, 8)
    /\ splitMoves > 0

----------------------------------------------------------------------------
(* Properties of the degenerate grid (SpecSlice) *)

\* C12 - Degenerate grid: an axis with one slice has no breakpoints and the
\* stops 0, 1 (one fraction, equal to 1); a slicing run with one row spans
\* the full height from y = 0, one with one column the full width from
\* x = 0, and with one row and one column the run yields exactly one
\* rectangle, at the origin and of the size of the image.
C12_DegenerateGrid ==
    /\ gridRowCount = 1 =>
          /\ rowSplits = << >> /\ rowStops = <<0, Scale>> /\ rowFractions = <<Scale>>
          /\ \A r \in Rects : r.y = 0 /\ r.height = imageDimensions.height
    /\ gridColCount = 1 =>
          /\ colSplits = << >> /\ colStops = <<0, Scale>> /\ colFractions = <<Scale>>
          /\ \A r \in Rects : r.x = 0 /\ r.width = imageDimensions.width
    /\ (gridRowCount = 1 /\ gridColCount = 1 /\ slices # << >>) =>
          slices = << [row |-> 0, col |-> 0, x |-> 0, y |-> 0,
                       width |-> imageDimensions.width,
                       height |-> imageDimensions.height] >>

\* a 301 x 6 image was sliced with one row and one column
C12_Witness ==
    /\ gridRowCount = 1 /\ gridColCount = 1
    /\ imageDimensions = [width |-> 301, height |-> 6]
    /\ Len(slices) = 1
    /\ slices[1].width = 301 /\ slices[1].height = 6

----------------------------------------------------------------------------
(* Properties of the entry headers (SpecZip) *)

\* position of the i-th local header
LocalPos(i) == LocalSpan(i - 1)

\* C13 - Stored, not compressed: in the local header and in the central
\* record of every entry the compression method is 0 and the compressed size
\* and the uncompressed size are both the length of the entry's content,
\* which follows the local header and name byte for byte.
C13_Stored ==
    Built =>
        \A i \in 1..Len(zipFiles) :
            /\ RdU16(zipBlob, LocalPos(i) + 8) = 0
            /\ RdU32(zipBlob, LocalPos(i) + 18) = DataLen(i)
            /\ RdU32(zipBlob, LocalPos(i) + 22) = DataLen(i)
            /\ RdU16(zipBlob, CentralPos(i) + 10) = 0
            /\ RdU32(zipBlob, CentralPos(i) + 20) = DataLen(i)
            /\ RdU32(zipBlob, CentralPos(i) + 24) = DataLen(i)
            /\ Field(zipBlob, LocalPos(i) + 30 + NameLen(i), DataLen(i)) = zipFiles[i].data

\* one entry of 25 bytes was archived
C13_Witness ==
    /\ Built
    /\ Len(zipFiles) = 1
    /\ DataLen(1) = 25
    /\ RdU32(zipBlob, 18) = 25

----------------------------------------------------------------------------
(* Properties of overlapping exports (SpecExport) *)

\* the archive of every finished export is the one its entry list gives in
\* a page where no export was made before, at the same clock reading
C14_AloneArchive ==
    \A p \in ExportIds :
        exports[p].pc = "done" =>
            exports[p].blob = buildZipBlob(exports[p].files, exports[p].now, Null)

\* once built, the memoised table stays what it is, and it is the table a
\* first call builds
C14_TableStep ==
    /\ crcTable # Null => crcTable' = crcTable
    /\ crcTable' # Null => crcTable' = builtCrcTable

\* C14 - Concurrent exports do not interfere: in every interleaving of the
\* steps of the downloadSelected calls each archive equals the archive its
\* entry list gives when exported alone with the same timestamp, and the
\* memoised CRC table, the only state the calls share, never changes once it
\* is built.
C14_NoInterference == [](C14_AloneArchive) /\ [][C14_TableStep]_vars

\* two exports of different entry lists overlapped: the second one started
\* while the first was fetching and finished first
C14_Witness ==
    /\ exports[1].pc = "fetching"
    /\ exports[2].pc = "done"
    /\ exports[1].files # exports[2].files
    /\ Len(exports[2].files) = 3
    /\ crcTable # Null

----------------------------------------------------------------------------
(* Properties of the rounding of the slicing step (SpecSlice) *)

\* sum of the first k fractions, in units of 1 / Scale
RECURSIVE FractionSum(_, _)
FractionSum(fractions, k) ==
    IF k = 0 THEN 0 ELSE fractions[k] + FractionSum(fractions, k - 1)

\* round(sum of the unrounded sizes of slices 0 .. k-1) for an image dimension
RoundedEdge(fractions, k, dimension) == MathRound(FractionSum(fractions, k) * dimension, Scale)

\* C15 - Rounding strategy: the top of row r is the rounded sum of the
\* unrounded heights of rows 0 .. r-1, the bottom of every row but the last
\* is the rounded sum of the unrounded heights of rows 0 .. r, and the
\* bottom of the last row is the image height; likewise for the columns and
\* the image width.
C15_UnroundedAccumulator ==
    \A r \in Rects :
        /\ r.y = RoundedEdge(rowFractions, r.row, imageDimensions.height)
        /\ r.x = RoundedEdge(colFractions, r.col, imageDimensions.width)
        /\ r.row < gridRowCount - 1 =>
              r.y + r.height = RoundedEdge(rowFractions, r.row + 1, imageDimensions.height)
        /\ r.col < gridColCount - 1 =>
              r.x + r.width = RoundedEdge(colFractions, r.col + 1, imageDimensions.width)
        /\ r.row = gridRowCount - 1 => r.y + r.height = imageDimensions.height
        /\ r.col = gridColCount - 1 => r.x + r.width = imageDimensions.width

----------------------------------------------------------------------------
(* Properties of one breakpoint move (SpecMove) *)

SpecClamp(v, lo, hi) == IF v < lo THEN lo ELSE IF v > hi THEN hi ELSE v

\* what setBreakpoint makes of splits for n slices: entry index (from 0)
\* becomes raw clamped between its neighbours (0 and 1 at the ends) plus and
\* minus the gap, every other entry stays
MovedTo(before, after, n, index, raw) ==
    LET lo == IF index = 0 THEN 0 ELSE before[index]
        hi == IF index = Len(before) - 1 THEN Scale ELSE before[index + 2]
    IN /\ Len(after) = Len(before)
       /\ after[index + 1] = SpecClamp(raw, lo + SpecGap(n), hi - SpecGap(n))
       /\ \A j \in 1..Len(before) : j # index + 1 => after[j] = before[j]

C16_BreakpointStep ==
    \A value \in RawValues :
        /\ \A index \in 0..(Len(customRowSplits) - 1) :
              updateRowSplit(index, value) =>
                  /\ MovedTo(customRowSplits, customRowSplits', customRows, index, value)
                  /\ customColSplits' = customColSplits
                  /\ customRows' = customRows /\ customCols' = customCols
        /\ \A index \in 0..(Len(customColSplits) - 1) :
              updateColSplit(index, value) =>
                  /\ MovedTo(customColSplits, customColSplits', customCols, index, value)
                  /\ customRowSplits' = customRowSplits
                  /\ customRows' = customRows /\ customCols' = customCols

----------------------------------------------------------------------------
(* Properties of stops and fractions (SpecDrag) *)

\* the stops of an axis with n slices: n + 1 of them, from 0 to 1
StopsShape(stops, n) ==
    /\ Len(stops) = n + 1
    /\ stops[1] = 0
    /\ stops[n + 1] = Scale

\* one fraction per slice, summing to 1
FractionsShape(fractions, n) ==
    /\ Len(fractions) = n
    /\ FractionSum(fractions, Len(fractions)) = Scale

\* every fraction above 0 and, when there are several, below 1; the only
\* fraction of a single slice is 1
FractionsInside(fractions, n) ==
    /\ \A i \in 1..Len(fractions) : 0 < fractions[i] /\ fractions[i] <= Scale
    /\ n >= 2 => \A i \in 1..Len(fractions) : fractions[i] < Scale

\* C17 - Stops and fractions: in every reachable state, with n slices on an
\* axis there are n + 1 stops from 0 to 1 and n fractions, each above 0 and
\* below 1, summing to 1.  (The single fraction of an axis with n = 1 is 1
\* by the sum; it is admitted here, although the claim's open interval
\* excludes it.)
C17_StopsFractions ==
    /\ StopsShape(rowStops, gridRowCount) /\ StopsShape(colStops, gridColCount)
    /\ FractionsShape(rowFractions, gridRowCount) /\ FractionsShape(colFractions, gridColCount)
    /\ FractionsInside(rowFractions, gridRowCount)
    /\ FractionsInside(colFractions, gridColCount)

----------------------------------------------------------------------------
(* Properties of a drag (SpecDrag) *)

\* the breakpoints are unchanged by a step
SplitsUnchanged ==
    customRowSplits' = customRowSplits /\ customColSplits' = customColSplits

\* a pointer-move while a line is dragged is setBreakpoint on that axis and
\* index with the pointer's ratio; without a dragged line it changes nothing
C18_MoveStep ==
    \A ratio \in PointerRatios :
        pointerMove(ratio) =>
            IF draggingLine = NoLine THEN SplitsUnchanged
            ELSE IF draggingLine.axis = "row"
                 THEN /\ draggingLine.index < Len(customRowSplits)
                      /\ MovedTo(customRowSplits, customRowSplits', customRows,
                                 draggingLine.index, ratio)
                      /\ customColSplits' = customColSplits
                 ELSE /\ draggingLine.index < Len(customColSplits)
                      /\ MovedTo(customColSplits, customColSplits', customCols,
                                 draggingLine.index, ratio)
                      /\ customRowSplits' = customRowSplits

\* C18 - Interactive drag: from pointer-down to pointer-up every pointer-move
\* is setBreakpoint on the dragged axis and index with the pointer's ratio,
\* and the state after every step satisfies the breakpoint ordering
\* invariant; pointer-up clears the drag state, and pointer-moves without a
\* drag leave the breakpoints unchanged.
C18_InteractiveDrag ==
    [][ /\ C18_MoveStep
        /\ pointerUp => draggingLine' = NoLine
        /\ (StrictlyInside(customRowSplits) /\ StrictlyInside(customColSplits))' ]_vars

----------------------------------------------------------------------------
(* Properties of the DOS timestamp (SpecZip) *)

\* the two values of the specification, with the shifts written as
\* multiplications and the bitwise or of disjoint fields as a sum
SpecDosTime(date) == date.hours * 2048 + date.minutes * 32 + date.seconds \div 2
SpecDosDate(date) == (Max(date.year, 1980) - 1980) * 512 + (date.month + 1) * 32 + date.day

\* C19 - DOS timestamp encoding: dosTime is (hour << 11) | (minute << 5) |
\* floor(second / 2), dosDate is ((max(year, 1980) - 1980) << 9) |
\* (month << 5) | day with month in 1..12, each fits in 16 bits, and the two
\* 16-bit fields of every header hold exactly these values.
C19_DosTimestamp ==
    Built =>
        /\ toDosDate(zipNow).dosTime = SpecDosTime(zipNow)
        /\ toDosDate(zipNow).dosDate = SpecDosDate(zipNow)
        /\ (zipNow.month + 1) \in 1..12
        /\ \A i \in 1..Len(zipFiles) :
              /\ SpecDosTime(zipNow) < 65536 /\ SpecDosDate(zipNow) < 65536
              /\ RdU16(zipBlob, LocalPos(i) + 10) = SpecDosTime(zipNow)
              /\ RdU16(zipBlob, LocalPos(i) + 12) = SpecDosDate(zipNow)
              /\ RdU16(zipBlob, CentralPos(i) + 12) = SpecDosTime(zipNow)
              /\ RdU16(zipBlob, CentralPos(i) + 14) = SpecDosDate(zipNow)

----------------------------------------------------------------------------
(* Properties of the central directory (SpecZip) *)

\* C20 - Central directory mirrors the local region: the i-th central record
\* points at the i-th local header and carries the same DOS time and date,
\* CRC-32, sizes, name length and name bytes as that header, which are those
\* of the i-th input entry.
C20_CentralMirrorsLocal ==
    Built =>
        \A i \in 1..Len(zipFiles) :
            LET c == CentralPos(i)
                l == RdU32(zipBlob, c + 42)
            IN /\ l = LocalPos(i)
               /\ Field(zipBlob, l, 4) = <<80, 75, 3, 4>>
               /\ Field(zipBlob, c + 12, 2) = Field(zipBlob, l + 10, 2)
               /\ Field(zipBlob, c + 14, 2) = Field(zipBlob, l + 12, 2)
               /\ Field(zipBlob, c + 16, 4) = Field(zipBlob, l + 14, 4)
               /\ Field(zipBlob, c + 16, 4) = U32LEWord(RefCrc32(zipFiles[i].data))
               /\ Field(zipBlob, c + 20, 8) = Field(zipBlob, l + 18, 8)
               /\ RdU16(zipBlob, c + 28) = RdU16(zipBlob, l + 26)
               /\ RdU16(zipBlob, c + 28) = NameLen(i)
               /\ Field(zipBlob, c + 46, NameLen(i)) = Field(zipBlob, l + 30, NameLen(i))
               /\ Field(zipBlob, c + 46, NameLen(i)) = encodeName(zipFiles[i].name)

\* three entries with names of different lengths and different contents
\* were archived at a time whose DOS time and DOS date differ
C20_Witness ==
    /\ Built
    /\ Len(zipFiles) = 3
    /\ zipNow.year = 2024
    /\ NameLen(1) # NameLen(2)
    /\ zipFiles[1].data # zipFiles[3].data
    /\ Field(zipBlob, CentralPos(3) + 12, 2) # Field(zipBlob, CentralPos(3) + 14, 2)

----------------------------------------------------------------------------
(* Properties of image loads and slicing runs (SpecLoad) *)

\* C22 - Loading keeps the processing area: a step that loads a new master
\* image (upload or history) empties slices and leaves the processing area
\* as it was, every item still there in the same order.
C22_LoadStep ==
    masterImage' # masterImage => slices' = << >> /\ processingArea' = processingArea

C22_LoadKeepsArea == [][C22_LoadStep]_vars

\* image 2 is the master image, nothing is sliced, and both slices of image 1
\* are still in the processing area, in slice order
C22_Witness ==
    /\ masterImage = 2
    /\ slices = << >>
    /\ Len(processingArea) = 2
    /\ processingArea[1].dataUrl = sliceDataUrl(1, 0)
    /\ processingArea[2].dataUrl = sliceDataUrl(1, 1)

\* the runs whose last blob callback has fired
CompletedRuns == { r \in SliceRunIds : sliceRuns[r].pc = "done" }

\* slices is empty or the complete newSlices of one run
SlicesOfOneRun ==
    \/ slices = << >>
    \/ \E r \in CompletedRuns :
          /\ slices = sliceRuns[r].newSlices
          /\ Len(slices) = sliceRuns[r].rows * sliceRuns[r].cols
          /\ \A k \in 1..Len(slices) : slices[k] # UndefinedItem /\ slices[k].index = k - 1

\* one timeline item per completed run
OneTimelineItemPerRun == Len(timelineItems) = Cardinality(CompletedRuns)

\* what slices holds was cut from the master image now loaded
SlicesOfMasterImage ==
    \A k \in 1..Len(slices) : slices[k].dataUrl = sliceDataUrl(masterImage, slices[k].index)

\* C23 - Slices are published atomically and never stale: slices is empty or
\* the complete rows x cols set of one slicing run, one timeline item is
\* appended per completed run, and after a new master image is loaded slices
\* holds nothing cut from an earlier image.
C23_AtomicNeverStale ==
    /\ SlicesOfOneRun
    /\ OneTimelineItemPerRun
    /\ SlicesOfMasterImage

----------------------------------------------------------------------------
(* Shape of the split arrays (SpecDrag) *)

\* an array of exactly count - 1 numbers
SplitShape(splits, count) ==
    /\ Len(splits) = count - 1
    /\ \A i \in 1..Len(splits) : isNumber(splits[i])

\* a pointer-move that applies setBreakpoint applies it to an index inside
\* the array of the dragged axis
C24_IndexStep ==
    splitMoves' # splitMoves =>
        /\ draggingLine # NoLine
        /\ draggingLine.index < (IF draggingLine.axis = "row" THEN Len(customRowSplits)
                                 ELSE Len(customColSplits))

\* C24 - Split-array shape: in every state reached by grid-size changes,
\* mode changes, resets and drag events the row breakpoint array has exactly
\* customRows - 1 finite entries, the column breakpoint array exactly
\* customCols - 1, and every setBreakpoint index applied is within the array.
C24_SplitArrayShape ==
    /\ [](SplitShape(customRowSplits, customRows) /\ SplitShape(customColSplits, customCols))
    /\ [][C24_IndexStep]_vars

----------------------------------------------------------------------------
(* Properties of enhancement runs (FairSpecEnhance) *)

\* the runs that were started
StartedRuns == { e \in EnhanceRunIds : enhanceRuns[e].pc # "idle" }

\* the items of the queue are submitted one at a time in queue order: what
\* was submitted is the queue up to the current item, or up to the one before
\* it while its file is built
SubmittedInOrder(run) ==
    /\ Len(run.submitted) \in {run.i, run.i + 1}
    /\ Len(run.submitted) <= Len(run.queue)
    /\ \A k \in 1..Len(run.submitted) : run.submitted[k] = run.queue[k].id

\* the step in which run e fails: its current item has an error text and is
\* not enhancing, the items before it in the queue are enhanced and have
\* their result, and the run is over
FailStepOf(e) ==
    enhanceRuns[e].pc # "failed" /\ enhanceRuns'[e].pc = "failed" =>
        LET run == enhanceRuns'[e]
        IN /\ ~isEnhancing'
           /\ \A k \in 1..Len(processingArea') :
                 LET p == processingArea'[k]
                 IN /\ p.id = run.queue[run.i + 1].id =>
                          p.enhanceError # NoError /\ ~p.enhancing
                    /\ (\E j \in 1..run.i : p.id = run.queue[j].id) =>
                          p.enhanced /\ p.enhancedDataUrl # NoUrl /\ p.enhanceError = NoError

\* a run that has failed submits nothing more
FailedRunIsOver(e) ==
    enhanceRuns[e].pc = "failed" => enhanceRuns'[e] = enhanceRuns[e]

C27_RunStep == \A e \in EnhanceRunIds : FailStepOf(e) /\ FailedRunIsOver(e)

\* C27 - Enhancement stops at the first failure: the items are handled one
\* at a time in the order of the queue taken at the start; when an item
\* fails it gets an error text and enhancing = false, no later item is
\* submitted, and the items before it keep their enhanced result.
C27_StopsAtFirstFailure ==
    /\ [](\A e \in StartedRuns : SubmittedInOrder(enhanceRuns[e]))
    /\ [][C27_RunStep]_vars

\* a run over two items failed on its second item by a timeout, after the
\* first one was enhanced
C27_Witness ==
    \E e \in EnhanceRunIds :
        /\ enhanceRuns[e].pc = "failed"
        /\ Len(enhanceRuns[e].queue) = 2
        /\ enhanceRuns[e].i = 1
        /\ enhanceRuns[e].returned = "timeout"
        /\ processingArea[1].enhanced
        /\ processingArea[2].enhanceError = MsgTimeout

\* C28 - Enhancement always terminates: a waitForGeneration call makes at
\* most 90 polls, it returns only a generation whose status is succeeded or
\* failed or throws the timeout error, and every performEnhance run
\* eventually sets isEnhancing back to false.
C28_EnhanceTerminates ==
    /\ [](\A e \in StartedRuns :
             /\ enhanceRuns[e].attempt < ENHANCE_POLL_MAX_ATTEMPTS
             /\ enhanceRuns[e].returned \in {"", "succeeded", "failed", "timeout"})
    /\ (isEnhancing ~> ~isEnhancing)

\* a run has waited through 89 polls without an end and is at its last one
C28_Witness ==
    \E e \in EnhanceRunIds :
        /\ enhanceRuns[e].pc = "poll"
        /\ enhanceRuns[e].attempt = ENHANCE_POLL_MAX_ATTEMPTS - 1
        /\ isEnhancing
        /\ \E k \in 1..Len(processingArea) :
              processingArea[k].enhancing /\ processingArea[k].enhanceProgress = 50

----------------------------------------------------------------------------
(* Properties of enhancement while the processing area is edited (SpecBusy) *)

\* the entries of the processing area that are items
AreaItems == { k \in 1..Len(processingArea) : processingArea[k] # UndefinedItem }

EnhancingItems == { k \in AreaItems : processingArea[k].enhancing }

\* the runs between their start and their setIsEnhancing(false)
ActiveRuns == { e \in EnhanceRunIds : enhanceRuns[e].pc \in {"file", "submit", "poll"} }

\* a step that starts a run is taken with isEnhancing false
C29_StartStep ==
    \A e \in EnhanceRunIds :
        enhanceRuns[e].pc = "idle" /\ enhanceRuns'[e].pc # "idle" => ~isEnhancing

\* C29 - At most one item enhancing: whatever is added, removed or reordered
\* while a run is going on, at most one item of the processing area has
\* enhancing = true, none has it while isEnhancing is false, and a second run
\* cannot start while isEnhancing is true.
C29_OneItemEnhancing ==
    /\ [](/\ Cardinality(EnhancingItems) <= 1
          /\ ~isEnhancing => EnhancingItems = {}
          /\ Cardinality(ActiveRuns) <= 1
          /\ isEnhancing <=> ActiveRuns # {})
    /\ [][C29_StartStep]_vars

\* during the second run, on a processing area that was reordered, the item
\* now first is the one enhancing
C29_Witness ==
    /\ isEnhancing
    /\ enhanceRuns[1].pc \in {"done", "failed"}
    /\ enhanceRuns[2].pc = "poll"
    /\ Len(processingArea) = 2
    /\ processingArea[1].id = <<0, 1>>
    /\ processingArea[1].enhancing
    /\ ~processingArea[2].enhancing

----------------------------------------------------------------------------
(* Properties of the export of the processing area (SpecArea) *)

\* the file name of the k-th entry, k = 1..9: the digit k and ".png"
NameOfPosition(k) == <<48 + k, 46, 112, 110, 103>>

\* the calls of downloadSelected that passed the filter
StartedExports == { p \in ExportIds : exports[p].pc \in {"fetching", "done"} }

\* a click that starts an export makes one entry per item of the processing
\* area, in its order, the k-th named k.png and holding the k-th item's image
C21_ClickStep ==
    \A p \in ExportIds :
        exports[p].pc = "idle" /\ exports'[p].pc # "idle" =>
            /\ exports'[p].pc = "fetching"
            /\ Len(exports'[p].files) = Len(processingArea)
            /\ \A k \in 1..Len(processingArea) :
                  /\ exports'[p].files[k].name = NameOfPosition(k)
                  /\ exports'[p].files[k].data = fetchBytes(shownUrl(processingArea[k]))

\* buildZipBlob is called on these entries, whatever was done to the
\* processing area during the fetches
C21_BuildStep ==
    \A p \in ExportIds :
        exports[p].pc = "fetching" /\ exports'[p].pc # "fetching" =>
            /\ exports'[p].pc = "done"
            /\ exports'[p].files = exports[p].files
            /\ zipFiles' = exports[p].files

\* C21 - Export naming: after any sequence of add, remove and reorder
\* operations on the processing area, an export passes the ZIP builder one
\* entry per exported item, in processing-area order, named 1.png, 2.png,
\* ... k.png (consecutive from 1, all distinct), the k-th name belonging to
\* the k-th item of the list at the time of the export.
C21_ExportNaming ==
    /\ [](\A p \in StartedExports : \A j, k \in 1..Len(exports[p].files) :
             j # k => exports[p].files[j].name # exports[p].files[k].name)
    /\ [][C21_ClickStep /\ C21_BuildStep]_vars

\* an export of three items in the order 2, 0, 1 is built, and an item was
\* removed from the processing area during the fetches
C21_Witness ==
    /\ exports[1].pc = "done"
    /\ Len(zipFiles) = 3
    /\ zipFiles[1] = [name |-> NameOfPosition(1), data |-> fetchBytes(sliceDataUrl(1, 2))]
    /\ zipFiles[2] = [name |-> NameOfPosition(2), data |-> fetchBytes(sliceDataUrl(1, 0))]
    /\ zipFiles[3] = [name |-> NameOfPosition(3), data |-> fetchBytes(sliceDataUrl(1, 1))]
    /\ Len(processingArea) = 2

----------------------------------------------------------------------------
(* Properties of the processing area (SpecArea) *)

\* the slices that are not in the processing area, in slice order
AbsentSlices == SelectSeq(slices, LAMBDA s : \A k \in AreaItems : processingArea[k].id # s.id)

\* a step that makes the processing area longer and is no drop keeps the
\* items it had, in place, and appends after them the slices that were not
\* among them (all of them, or the selected ones), in slice order
C25_AddStep ==
    Len(processingArea') > Len(processingArea) /\ processingDragIndex' = processingDragIndex =>
        \/ processingArea' = processingArea \o AbsentSlices
        \/ processingArea' = processingArea \o SelectSeq(AbsentSlices, LAMBDA s : s.selected)

\* C25 - Processing-area uniqueness: after any sequence of
\* addToProcessingArea, addAllToProcessing, removeFromProcessingArea and
\* drag-reorder operations no two items of the processing area have the same
\* id; adding a slice that is already present changes nothing, and new items
\* are appended at the end in slice order.
C25_UniqueIds ==
    /\ [](\A j, k \in AreaItems : j # k => processingArea[j].id # processingArea[k].id)
    /\ [][C25_AddStep]_vars

\* all three slices are in the processing area, slice 1 first and the
\* slices 0 and 2 after it
C25_Witness ==
    /\ Len(processingArea) = 3
    /\ processingArea[1].index = 1
    /\ processingArea[2].index = 0
    /\ processingArea[3].index = 2

----------------------------------------------------------------------------
(* Properties of the drag-reorder (SpecArea) *)

AreaEntries(area) == { area[k] : k \in 1..Len(area) }

\* a step that ends a drag (a drop or a drag end while a drag index is set)
\* leaves the list as it is or moves one entry: same length, same entries,
\* and the entries other than the moved one in the same order
C26_DropStep ==
    processingDragIndex # NoDragIndex /\ processingDragIndex' = NoDragIndex =>
        \/ processingArea' = processingArea
        \/ /\ Len(processingArea') = Len(processingArea)
           /\ AreaEntries(processingArea') = AreaEntries(processingArea)
           /\ \E x \in AreaEntries(processingArea) :
                 SelectSeq(processingArea', LAMBDA p : p # x)
                    = SelectSeq(processingArea, LAMBDA p : p # x)

\* C26 - Drag-reorder is a permutation: a drop in the processing area moves
\* the dragged item to the drop index and keeps every other item in its
\* relative order, so the list has the same length and the same set of items
\* before and after, also when items were removed between drag start and
\* drop; the drag index is cleared after every drop and drag end.
C26_DropIsPermutation == [][C26_DropStep]_vars

----------------------------------------------------------------------------
(* Properties of the empty export (SpecExport) *)

\* a call that finds nothing to export returns and leaves the archive
\* builder, its CRC table and its results untouched
C30_ReturnStep ==
    \A p \in ExportIds :
        exports[p].pc = "idle" /\ exports'[p].pc = "returned" =>
            /\ exports'[p].files = << >> /\ exports'[p].blob = Null
            /\ UNCHANGED <<crcTable, crcData, crcValue, zipFiles, zipNow, zipBlob>>

\* C30 - No empty export: an export requested while the processing area has
\* no exportable item returns without calling the ZIP builder and without
\* triggering a download, so buildZipBlob is only ever invoked with at least
\* one entry and every entry name is non-empty.
C30_NoEmptyExport ==
    /\ [](/\ \A p \in ExportIds :
                exports[p].pc \in {"fetching", "done"} =>
                    /\ Len(exports[p].files) >= 1
                    /\ \A k \in 1..Len(exports[p].files) : Len(exports[p].files[k].name) >= 1
          /\ zipBlob # Null =>
                /\ Len(zipFiles) >= 1
                /\ \A k \in 1..Len(zipFiles) : Len(zipFiles[k].name) >= 1)
    /\ [][C30_ReturnStep]_vars

\* one call returned on an empty list, before any archive was built, and the
\* other one built an archive
C30_Witness ==
    /\ exports[1].pc = "returned"
    /\ exports[2].pc = "done"
    /\ exports[2].blob = zipBlob
    /\ Len(zipFiles) >= 1

====
